---- MODULE Spec2Model ----
(***************************************************************************)
(* DA7281 haptic driver HAL: the bus transaction layer (da7281_i2c.c) and  *)
(* the device state machine (da7281.c), as a state machine of tasks that   *)
(* call the driver concurrently under a preemptive scheduler.              *)
(*                                                                         *)
(* Every task owns a call stack of frames.  A step of a task is one access *)
(* to state shared with other tasks (the static tables of da7281_i2c.c,    *)
(* a FreeRTOS mutex, the TWI driver, the chip, a device handle) together   *)
(* with the task-local computation that follows it.                        *)
(***************************************************************************)
EXTENDS Integers, Sequences, FiniteSets, TLC

\* ------------------------------------------------------------------ bounds

\* top-level driver calls the tasks make, all together, in one behaviour
MaxCalls == 2

\* mutexes the FreeRTOS heap has room for; xSemaphoreCreateMutex returns NULL beyond
MaxMutexes == 2

\* ------------------------------------------------------- program constants

\* width of uint8_t register values
ByteBits == 8

\* s_i2c_mutex[2], s_twi_initialized[2], s_twi_pins[2]
NumBuses == 2

DA7281_CHIP_REV_VALUE == 202

DA7281_CHIP_REV_LEGACY_VALUE == 186

\* da7281_init: "Verify chip ID (must be 0xBA)"
DA7281_CHIP_ID_VALUE == 186

\* da7281_set_operation_mode: "OP_MODE is bits [2:0] of TOP_CFG1"
DA7281_TOP_CFG1_OP_MODE_MASK == 7

DA7281_TOP_CFG1_OP_MODE_SHIFT == 0

\* the actuator-type field; da7281.c names it DA7281_TOP_CFG2_MOTOR_TYPE_MASK, the
\* register map in force defines the field as bit 5 (0 = ERM, 1 = LRA)
DA7281_TOP_CFG2_MOTOR_TYPE_MASK == 32

DA7281_MOTOR_TYPE_LRA == 32

DA7281_TOP_CFG1_AMP_EN == 8

\* the override-enable bit of GEN_CFG2; da7281.c uses the macro, no header under
\* include/ gives it a value: one bit of the byte
DA7281_GEN_CFG2_OVERRIDE_EN == 1

\* the byte run_selftest writes to SELFTEST_CFG
SelftestTrigger == 1

\* the pass pattern of SELFTEST_RESULT; da7281.c uses the macro, no header under
\* include/ gives it a value
DA7281_SELFTEST_RESULT_PASS == 1

\* Actuator quantities are kept in fixed point: impedance_ohm in hundredths of an
\* ohm, nom_max_v_rms and abs_max_v_peak in hundredths of a volt.

\* 1 / DA7281_LRA_PER_TIME_SCALE (1.33332e-9 s per LSB), in LSB per second
LraPerLsbPerSecond == 750003750

\* da7281_configure_lra: "V2I_FACTOR = Z * 1.5"; in tenths. da7281.c uses the macro
\* DA7281_V2I_FACTOR_SCALE, no header under include/ gives it a value
DA7281_V2I_FACTOR_SCALE == 15

\* 23.4 mV per LSB, in tenths of a millivolt
DA7281_ACTUATOR_NOMMAX_SCALE == 234

DA7281_ACTUATOR_ABSMAX_SCALE == 234

\* 7.2 mA per LSB, in tenths of a milliampere
DA7281_ACTUATOR_IMAX_SCALE == 72

\* registers configure_lra writes
LraWrites == 7

\* entries of mode_names[] in da7281_set_operation_mode
ModeNamesLen == 6

\* da7281_operation_mode_t
DA7281_MODE_INACTIVE == 0

DA7281_MODE_STANDBY == 6

\* ------------------------------------------------------------------- sets

Tasks == {"t1", "t2"}

Devices == {"devA", "devB"}

\* valid TWI instances: instance >= 2 is rejected
Buses == 0 .. (NumBuses - 1)

\* values a caller may put into da7281_device_t.twi_instance
TwiInstances == 0 .. NumBuses

NULL == 0

NoTask == "none"

\* registers the driver touches, by the names of da7281.c
Registers ==
    {"CHIP_ID", "CHIP_REV", "TOP_CFG1", "TOP_CFG2",
     "LRA_PER_H", "LRA_PER_L", "V2I_FACTOR_H", "V2I_FACTOR_L",
     "ACTUATOR_NOMMAX", "ACTUATOR_ABSMAX", "ACTUATOR_IMAX",
     "GEN_CFG2", "OVERRIDE_AMP", "SELFTEST_CFG", "SELFTEST_RESULT"}

\* da7281_error_t
DA7281_OK == "OK"

DA7281_ERROR_INVALID_PARAM == "INVALID_PARAM"

DA7281_ERROR_I2C_WRITE == "I2C_WRITE"

DA7281_ERROR_I2C_READ == "I2C_READ"

DA7281_ERROR_NOT_INITIALIZED == "NOT_INITIALIZED"

DA7281_ERROR_ALREADY_INITIALIZED == "ALREADY_INITIALIZED"

DA7281_ERROR_CHIP_ID_MISMATCH == "CHIP_ID_MISMATCH"

DA7281_ERROR_MUTEX_FAILED == "MUTEX_FAILED"

\* ------------------------------------------------------------- bit algebra

RECURSIVE AndBits(_, _, _)
AndBits(a, b, n) ==
    IF n = 0 THEN 0
    ELSE (a % 2) * (b % 2) + 2 * AndBits(a \div 2, b \div 2, n - 1)

RECURSIVE OrBits(_, _, _)
OrBits(a, b, n) ==
    IF n = 0 THEN 0
    ELSE (IF (a % 2) + (b % 2) > 0 THEN 1 ELSE 0) + 2 * OrBits(a \div 2, b \div 2, n - 1)

\* a & b on uint8_t
BitAnd(a, b) == AndBits(a, b, ByteBits)

\* a | b on uint8_t
BitOr(a, b) == OrBits(a, b, ByteBits)

\* ~a, truncated to uint8_t
BitNot(a) == (2 ^ ByteBits - 1) - a

\* bit i of a
Bit(a, i) == (a \div (2 ^ i)) % 2


\* the new bits are not masked
ModifyBitsUnmasked(old_value, mask, value) ==
    BitOr(BitAnd(old_value, BitNot(mask)), value)

\* the byte read is not kept: the bits outside the mask are written as 0
ModifyBitsReplacing(old_value, mask, value) == BitAnd(value, mask)

\* the masked update of da7281_modify_register
ModifyBits(old_value, mask, value) ==
    BitOr(BitAnd(old_value, BitNot(mask)), BitAnd(value, mask))

\* ------------------------------------------------------------------ state

VARIABLES
    s_i2c_mutex,        \* per bus: handle of the mutex, NULL before first use
    s_twi_initialized,  \* per bus: the driver's own "TWI initialized" flag
    s_twi_pins,         \* per bus: [configured], set by the application
    twi_drv,            \* per bus: the TWI driver instance is initialized
    mutexes,            \* FreeRTOS heap: the mutexes created so far, by handle
    dev,                \* the device handles (da7281_device_t)
    chip,               \* the chips' register files
    stack,              \* per task: call stack, innermost frame last
    result,             \* per task: what the last returned call gave back
    ncalls,             \* per task: top-level calls started
    call,               \* per task: the top-level call, with its arguments
    entry,              \* per task: the handle as it was when the top-level call began
    buslog,             \* per task: the transfers the top-level call has issued
    enable_line,        \* per device: the level of the power-enable line, TRUE is high
    effects             \* per task: the GPIO and delay calls made, each with its call's number

vars ==
    << s_i2c_mutex, s_twi_initialized, s_twi_pins, twi_drv, mutexes, dev, chip,
       stack, result, ncalls, call, entry, buslog, enable_line, effects >>

busVars == << s_i2c_mutex, s_twi_initialized, s_twi_pins, twi_drv, mutexes >>

\* ----------------------------------------------------------- call stacks

Top(t) == stack[t][Len(stack[t])]

Idle(t) == stack[t] = << >>

Running(t, fn, pc) ==
    /\ stack[t] # << >>
    /\ Top(t).fn = fn
    /\ Top(t).pc = pc

\* the register access on top of t's stack is at pc
Access(t, pc) ==
    /\ stack[t] # << >>
    /\ Top(t).fn \in {"write_register", "read_register"}
    /\ Top(t).pc = pc

SetTop(t, f) == [stack EXCEPT ![t] = [@ EXCEPT ![Len(@)] = f]]

\* the caller moves on to f and calls g
SetTopAndCall(t, f, g) == [stack EXCEPT ![t] = Append([@ EXCEPT ![Len(@)] = f], g)]

Call(t, g) == [stack EXCEPT ![t] = Append(@, g)]

Pop(t) == [stack EXCEPT ![t] = SubSeq(@, 1, Len(@) - 1)]

NoResult ==
    [fn |-> "none", device |-> "none", err |-> "none", value |-> 0, lock |-> NULL,
     faults |-> FALSE]

\* the innermost call of t returns err (and value through its out-parameter);
\* faults remembers that a register access of the top-level call returned an error
Return(t, err, value, lock) ==
    /\ stack' = Pop(t)
    /\ result' = [result EXCEPT ![t] =
                    [fn |-> Top(t).fn, device |-> Top(t).device, err |-> err,
                     value |-> value, lock |-> lock,
                     faults |-> \/ result[t].faults
                                \/ (Top(t).fn \in {"write_register", "read_register"}
                                       /\ err # DA7281_OK)]]

\* frames of da7281_write_register / da7281_read_register
AccessFrame(fn, d, reg_addr, value) ==
    [fn |-> fn, pc |-> "init_mutex", device |-> d, reg_addr |-> reg_addr,
     value |-> value, lock |-> NULL, ret |-> "none"]

WriteFrame(d, reg_addr, value) == AccessFrame("write_register", d, reg_addr, value)

ReadFrame(d, reg_addr) == AccessFrame("read_register", d, reg_addr, 0)

\* device->twi_instance of the access on top of t's stack
Instance(t) == dev[Top(t).device].twi_instance

\* registers the chip does not let the host change
ReadOnlyRegisters == {"CHIP_ID", "CHIP_REV"}

\* ------------------------------------------- da7281_i2c_configure_pins

ConfigurePins(instance) ==
    /\ IF instance >= NumBuses
          THEN UNCHANGED s_twi_pins
          ELSE IF s_twi_initialized[instance]
                  THEN UNCHANGED s_twi_pins
                  ELSE s_twi_pins' = [s_twi_pins EXCEPT ![instance] = [configured |-> TRUE]]
    /\ UNCHANGED << s_i2c_mutex, s_twi_initialized, twi_drv, mutexes, dev, chip,
                    stack, result, enable_line, effects, ncalls, call, entry, buslog >>

\* ------------------------------------------------ da7281_i2c_init_mutex

\* the instance check and the test "s_i2c_mutex[instance] == NULL"
InitMutexCheck(t) ==
    /\ Access(t, "init_mutex")
    /\ IF Instance(t) >= NumBuses
          THEN Return(t, DA7281_ERROR_INVALID_PARAM, 0, NULL)
          ELSE /\ stack' = SetTop(t, [Top(t) EXCEPT !.pc =
                               IF s_i2c_mutex[Instance(t)] = NULL
                                  THEN "create_mutex" ELSE "init_twi"])
               /\ UNCHANGED result
    /\ UNCHANGED << busVars, dev, chip, enable_line, effects, ncalls, call, entry, buslog >>

\* the handles xSemaphoreCreateMutex can return
CreateMutexOutcomes ==
    {NULL} \cup (IF Len(mutexes) < MaxMutexes THEN {Len(mutexes) + 1} ELSE {})

\* s_i2c_mutex[instance] = xSemaphoreCreateMutex()
CreateMutex(t) ==
    /\ Access(t, "create_mutex")
    /\ \E m \in CreateMutexOutcomes :
          /\ s_i2c_mutex' = [s_i2c_mutex EXCEPT ![Instance(t)] = m]
          /\ mutexes' = IF m = NULL THEN mutexes
                        ELSE Append(mutexes, [holder |-> NoTask, instance |-> Instance(t)])
    /\ stack' = SetTop(t, [Top(t) EXCEPT !.pc = "check_mutex"])
    /\ UNCHANGED << s_twi_initialized, s_twi_pins, twi_drv, dev, chip, result, enable_line, effects, ncalls, call, entry, buslog >>

\* the test "s_i2c_mutex[instance] == NULL" after the creation
CheckMutexCreated(t) ==
    /\ Access(t, "check_mutex")
    /\ IF s_i2c_mutex[Instance(t)] = NULL
          THEN Return(t, DA7281_ERROR_MUTEX_FAILED, 0, NULL)
          ELSE /\ stack' = SetTop(t, [Top(t) EXCEPT !.pc = "init_twi"])
               /\ UNCHANGED result
    /\ UNCHANGED << busVars, dev, chip, enable_line, effects, ncalls, call, entry, buslog >>

\* -------------------------------------------------- da7281_i2c_init_twi

\* the test "s_twi_initialized[instance]"
InitTwiCheck(t) ==
    /\ Access(t, "init_twi")
    /\ stack' = SetTop(t, [Top(t) EXCEPT !.pc =
                    IF s_twi_initialized[Instance(t)] THEN "take" ELSE "check_pins"])
    /\ UNCHANGED << busVars, dev, chip, result, enable_line, effects, ncalls, call, entry, buslog >>

\* the pins are not looked at
CheckPinsSkipped(t) ==
    /\ Access(t, "check_pins")
    /\ stack' = SetTop(t, [Top(t) EXCEPT !.pc = "drv_init"])
    /\ UNCHANGED << busVars, dev, chip, result, enable_line, effects, ncalls, call, entry, buslog >>

\* the test "s_twi_pins[instance].configured"
CheckPins(t) ==
    /\ Access(t, "check_pins")
    /\ IF s_twi_pins[Instance(t)].configured
          THEN /\ stack' = SetTop(t, [Top(t) EXCEPT !.pc = "drv_init"])
               /\ UNCHANGED result
          ELSE Return(t, DA7281_ERROR_INVALID_PARAM, 0, NULL)
    /\ UNCHANGED << busVars, dev, chip, enable_line, effects, ncalls, call, entry, buslog >>

\* nrf_drv_twi_init: fails on an instance that is initialized already, and may
\* fail on the hardware
DrvInit(t) ==
    /\ Access(t, "drv_init")
    /\ \E ok \in (IF twi_drv[Instance(t)] THEN {FALSE} ELSE BOOLEAN) :
          IF ok
             THEN /\ twi_drv' = [twi_drv EXCEPT ![Instance(t)] = TRUE]
                  /\ stack' = SetTop(t, [Top(t) EXCEPT !.pc = "twi_enable"])
                  /\ UNCHANGED result
             ELSE /\ Return(t, DA7281_ERROR_I2C_WRITE, 0, NULL)
                  /\ UNCHANGED twi_drv
    /\ UNCHANGED << s_i2c_mutex, s_twi_initialized, s_twi_pins, mutexes, dev, chip, enable_line, effects, ncalls, call, entry, buslog >>

\* nrf_drv_twi_enable and s_twi_initialized[instance] = true
TwiEnable(t) ==
    /\ Access(t, "twi_enable")
    /\ s_twi_initialized' = [s_twi_initialized EXCEPT ![Instance(t)] = TRUE]
    /\ stack' = SetTop(t, [Top(t) EXCEPT !.pc = "take"])
    /\ UNCHANGED << s_i2c_mutex, s_twi_pins, twi_drv, mutexes, dev, chip, result, enable_line, effects, ncalls, call, entry, buslog >>

\* ----------------------------- da7281_write_register, da7281_read_register

\* one lock for all buses
LockIndexShared(t) == 0

\* the index into s_i2c_mutex that an access uses: device->twi_instance
LockIndex(t) == Instance(t)

\* the transfer of the access on top of t's stack, appended to t's log
Logged(t, op, value, ok) ==
    [buslog EXCEPT ![t] =
        Append(@, [op |-> op, device |-> Top(t).device, reg_addr |-> Top(t).reg_addr,
                   value |-> value, ok |-> ok])]

\* where an access continues once it holds the lock
FirstTransfer(fn) == IF fn = "write_register" THEN "tx" ELSE "tx_addr"

\* xSemaphoreTake(s_i2c_mutex[device->twi_instance], ...) finds the mutex free
MutexTake(t) ==
    /\ Access(t, "take")
    /\ LET m == s_i2c_mutex[LockIndex(t)] IN
          /\ m # NULL
          /\ mutexes[m].holder = NoTask
          /\ mutexes' = [mutexes EXCEPT ![m].holder = t]
          /\ stack' = SetTop(t, [Top(t) EXCEPT !.pc = FirstTransfer(Top(t).fn), !.lock = m])
    /\ UNCHANGED << s_i2c_mutex, s_twi_initialized, s_twi_pins, twi_drv, dev, chip,
                    result, enable_line, effects, ncalls, call, entry, buslog >>

\* xSemaphoreTake gives up after DA7281_MUTEX_TIMEOUT_TICKS: the mutex stayed taken
MutexTimeout(t) ==
    /\ Access(t, "take")
    /\ LET m == s_i2c_mutex[LockIndex(t)] IN
          /\ m # NULL
          /\ mutexes[m].holder # NoTask
          /\ Return(t, DA7281_ERROR_MUTEX_FAILED, 0, m)
    /\ UNCHANGED << busVars, dev, chip, enable_line, effects, ncalls, call, entry, buslog >>

\* xSemaphoreTake on a NULL handle (another task's failed creation has stored NULL
\* over the handle this task saw): undefined; the call reports failure, or reports
\* success with no mutex behind it, or never returns
MutexTakeNull(t) ==
    /\ Access(t, "take")
    /\ s_i2c_mutex[LockIndex(t)] = NULL
    /\ \E outcome \in {"fails", "passes", "hangs"} :
          CASE outcome = "fails" -> Return(t, DA7281_ERROR_MUTEX_FAILED, 0, NULL)
            [] outcome = "passes" ->
                  /\ stack' = SetTop(t, [Top(t) EXCEPT !.pc = FirstTransfer(Top(t).fn)])
                  /\ UNCHANGED result
            [] outcome = "hangs" ->
                  /\ stack' = SetTop(t, [Top(t) EXCEPT !.pc = "hung"])
                  /\ UNCHANGED result
    /\ UNCHANGED << busVars, dev, chip, enable_line, effects, ncalls, call, entry, buslog >>

\* nrf_drv_twi_tx of {reg_addr, value}: the chip takes the byte, or the transfer fails
WriteTx(t) ==
    /\ Access(t, "tx")
    /\ Top(t).fn = "write_register"
    /\ \E ok \in BOOLEAN :
          /\ chip' = IF ok /\ Top(t).reg_addr \notin ReadOnlyRegisters
                        THEN [chip EXCEPT ![Top(t).device][Top(t).reg_addr] = Top(t).value]
                        ELSE chip
          /\ stack' = SetTop(t, [Top(t) EXCEPT !.pc = "give",
                                               !.ret = IF ok THEN "NRF_SUCCESS" ELSE "NRF_ERROR"])
          /\ buslog' = Logged(t, "write", Top(t).value, ok)
    /\ UNCHANGED << busVars, dev, result, enable_line, effects, ncalls, call, entry >>

\* nrf_drv_twi_tx of the register address, without a stop condition
ReadTxAddr(t) ==
    /\ Access(t, "tx_addr")
    /\ Top(t).fn = "read_register"
    /\ \E ok \in BOOLEAN :
          /\ stack' = SetTop(t, IF ok THEN [Top(t) EXCEPT !.pc = "rx", !.ret = "NRF_SUCCESS"]
                                ELSE [Top(t) EXCEPT !.pc = "give", !.ret = "NRF_ERROR"])
          /\ buslog' = Logged(t, "addr", 0, ok)
    /\ UNCHANGED << busVars, dev, chip, result, enable_line, effects, ncalls, call, entry >>

\* nrf_drv_twi_rx of one byte into *value
ReadRx(t) ==
    /\ Access(t, "rx")
    /\ \E ok \in BOOLEAN :
          /\ stack' = SetTop(t, IF ok
                                   THEN [Top(t) EXCEPT !.pc = "give", !.ret = "NRF_SUCCESS",
                                             !.value = chip[Top(t).device][Top(t).reg_addr]]
                                   ELSE [Top(t) EXCEPT !.pc = "give", !.ret = "NRF_ERROR"])
          /\ buslog' = Logged(t, "rx", IF ok THEN chip[Top(t).device][Top(t).reg_addr] ELSE 0, ok)
    /\ UNCHANGED << busVars, dev, chip, result, enable_line, effects, ncalls, call, entry >>

\* the error code of an access whose transfer ended with ret
AccessError(fn, ret) ==
    IF ret = "NRF_SUCCESS" THEN DA7281_OK
    ELSE IF fn = "write_register" THEN DA7281_ERROR_I2C_WRITE ELSE DA7281_ERROR_I2C_READ

\* xSemaphoreGive(s_i2c_mutex[device->twi_instance]) and the return; the handle is
\* read again from the table, and the mutex it names is free afterwards
MutexGive(t) ==
    /\ Access(t, "give")
    /\ LET m == s_i2c_mutex[LockIndex(t)] IN
          mutexes' = IF m = NULL THEN mutexes ELSE [mutexes EXCEPT ![m].holder = NoTask]
    /\ Return(t, AccessError(Top(t).fn, Top(t).ret), Top(t).value, Top(t).lock)
    /\ UNCHANGED << s_i2c_mutex, s_twi_initialized, s_twi_pins, twi_drv, dev, chip, enable_line, effects, ncalls, call, entry, buslog >>

\* -------------------------------------------------- da7281_modify_register

ModifyFrame(d, reg_addr, mask, value) ==
    [fn |-> "modify_register", pc |-> "read", device |-> d, reg_addr |-> reg_addr,
     mask |-> mask, value |-> value, old_value |-> 0, reg_value |-> 0]

\* modify_register is entered: it calls da7281_read_register
ModifyRead(t) ==
    /\ Running(t, "modify_register", "read")
    /\ stack' = SetTopAndCall(t, [Top(t) EXCEPT !.pc = "after_read"],
                              ReadFrame(Top(t).device, Top(t).reg_addr))
    /\ UNCHANGED << busVars, dev, chip, result, enable_line, effects, ncalls, call, entry, buslog >>

\* the read has returned: on an error return it, else compute the new byte and
\* call da7281_write_register
ModifyAfterRead(t) ==
    /\ Running(t, "modify_register", "after_read")
    /\ IF result[t].err # DA7281_OK
          THEN Return(t, result[t].err, 0, NULL)
          ELSE LET new == ModifyBits(result[t].value, Top(t).mask, Top(t).value) IN
               /\ stack' = SetTopAndCall(t,
                              [Top(t) EXCEPT !.pc = "after_write",
                                             !.old_value = result[t].value,
                                             !.reg_value = new],
                              WriteFrame(Top(t).device, Top(t).reg_addr, new))
               /\ UNCHANGED result
    /\ UNCHANGED << busVars, dev, chip, enable_line, effects, ncalls, call, entry, buslog >>

\* the write has returned: its error, or DA7281_OK
ModifyAfterWrite(t) ==
    /\ Running(t, "modify_register", "after_write")
    /\ Return(t, result[t].err, 0, NULL)
    /\ UNCHANGED << busVars, dev, chip, enable_line, effects, ncalls, call, entry, buslog >>

\* ---------------------------------------------------- calls by the tasks

RECURSIVE SumOver(_, _)
SumOver(f, S) ==
    IF S = {} THEN 0
    ELSE LET x == CHOOSE y \in S : TRUE IN f[x] + SumOver(f, S \ {x})

CanCall(t) == Idle(t) /\ SumOver(ncalls, Tasks) < MaxCalls

StartCall(t, frame) ==
    /\ CanCall(t)
    /\ stack' = Call(t, frame)
    /\ ncalls' = [ncalls EXCEPT ![t] = @ + 1]
    /\ result' = [result EXCEPT ![t] = NoResult]
    /\ call' = [call EXCEPT ![t] = frame]
    /\ entry' = [entry EXCEPT ![t] = dev[frame.device]]
    /\ buslog' = [buslog EXCEPT ![t] = << >>]
    /\ UNCHANGED << busVars, dev, chip, enable_line, effects >>

CallWriteRegister(t, d, reg_addr, value) ==
    /\ d \in Devices
    /\ StartCall(t, WriteFrame(d, reg_addr, value))

CallReadRegister(t, d, reg_addr) ==
    /\ d \in Devices
    /\ StartCall(t, ReadFrame(d, reg_addr))

\* modify_register's first step is task-local: the call enters at its read
CallModifyRegister(t, d, reg_addr, mask, value) ==
    /\ d \in Devices
    /\ StartCall(t, ModifyFrame(d, reg_addr, mask, value))

\* the steps of the bus transaction layer
BusStep(t) ==
    \/ InitMutexCheck(t)
    \/ CreateMutex(t)
    \/ CheckMutexCreated(t)
    \/ InitTwiCheck(t)
    \/ CheckPins(t)
    \/ DrvInit(t)
    \/ TwiEnable(t)
    \/ MutexTake(t)
    \/ MutexTimeout(t)
    \/ MutexTakeNull(t)
    \/ WriteTx(t)
    \/ ReadTxAddr(t)
    \/ ReadRx(t)
    \/ MutexGive(t)
    \/ ModifyRead(t)
    \/ ModifyAfterRead(t)
    \/ ModifyAfterWrite(t)

\* the steps of the bus transaction layer that a task running alone can take
SeqBusStep(t) ==
    \/ InitMutexCheck(t)
    \/ CreateMutex(t)
    \/ CheckMutexCreated(t)
    \/ InitTwiCheck(t)
    \/ CheckPins(t)
    \/ DrvInit(t)
    \/ TwiEnable(t)
    \/ MutexTake(t)
    \/ WriteTx(t)
    \/ ReadTxAddr(t)
    \/ ReadRx(t)
    \/ MutexGive(t)
    \/ ModifyRead(t)
    \/ ModifyAfterRead(t)
    \/ ModifyAfterWrite(t)

\* ----------------------------------------------- da7281_set_operation_mode

SetModeFrame(d, mode) ==
    [fn |-> "set_operation_mode", pc |-> "entry", device |-> d, mode |-> mode]

\* the handle check never fails
CheckDeviceSkipped(d) == FALSE

\* DA7281_CHECK_DEVICE fails: the handle is not marked initialized
NotInitialized(d) == ~dev[d].initialized

\* the range check comes first
SetModeRangeFirst(t) ==
    /\ Running(t, "set_operation_mode", "entry")
    /\ IF Top(t).mode < DA7281_MODE_INACTIVE \/ Top(t).mode > DA7281_MODE_STANDBY
          THEN Return(t, DA7281_ERROR_INVALID_PARAM, 0, NULL)
          ELSE Return(t, DA7281_ERROR_NOT_INITIALIZED, 0, NULL)
    /\ UNCHANGED << busVars, dev, chip, enable_line, effects, ncalls, call, entry, buslog >>

\* DA7281_CHECK_DEVICE, DA7281_CHECK_RANGE, the mode names for the log, then the
\* masked write of the mode bits. mode_names[] has ModeNamesLen entries: an index
\* beyond them reads a pointer past the array, and logging it either goes
\* unnoticed or faults
SetModeEntry(t) ==
    /\ Running(t, "set_operation_mode", "entry")
    /\ IF NotInitialized(Top(t).device)
          THEN Return(t, DA7281_ERROR_NOT_INITIALIZED, 0, NULL)
          ELSE IF Top(t).mode < DA7281_MODE_INACTIVE \/ Top(t).mode > DA7281_MODE_STANDBY
                  THEN Return(t, DA7281_ERROR_INVALID_PARAM, 0, NULL)
                  ELSE /\ \/ stack' = SetTopAndCall(t, [Top(t) EXCEPT !.pc = "after_modify"],
                                        ModifyFrame(Top(t).device, "TOP_CFG1",
                                                    DA7281_TOP_CFG1_OP_MODE_MASK,
                                                    BitAnd(Top(t).mode * 2 ^ DA7281_TOP_CFG1_OP_MODE_SHIFT,
                                                           DA7281_TOP_CFG1_OP_MODE_MASK)))
                          \/ /\ \/ dev[Top(t).device].mode >= ModeNamesLen
                                \/ Top(t).mode >= ModeNamesLen
                             /\ stack' = SetTop(t, [Top(t) EXCEPT !.pc = "fault"])
                       /\ UNCHANGED result
    /\ UNCHANGED << busVars, dev, chip, enable_line, effects, ncalls, call, entry, buslog >>

\* the requested mode is recorded whether or not the masked write succeeded
SetModeAfterModifyRecording(t) ==
    /\ Running(t, "set_operation_mode", "after_modify")
    /\ dev' = [dev EXCEPT ![Top(t).device].mode = Top(t).mode]
    /\ Return(t, result[t].err, 0, NULL)
    /\ UNCHANGED << busVars, chip, enable_line, effects, ncalls, call, entry, buslog >>

\* the masked write has returned: its error, or go on to the verification read
SetModeAfterModify(t) ==
    /\ Running(t, "set_operation_mode", "after_modify")
    /\ IF result[t].err # DA7281_OK
          THEN Return(t, result[t].err, 0, NULL)
          ELSE /\ stack' = SetTopAndCall(t, [Top(t) EXCEPT !.pc = "after_verify"],
                             ReadFrame(Top(t).device, "TOP_CFG1"))
               /\ UNCHANGED result
    /\ UNCHANGED << busVars, dev, chip, enable_line, effects, ncalls, call, entry, buslog >>

\* a verification read that failed, or gave other mode bits, fails the call
SetModeAfterVerifyChecking(t) ==
    /\ Running(t, "set_operation_mode", "after_verify")
    /\ IF result[t].err # DA7281_OK
          THEN /\ Return(t, result[t].err, 0, NULL)
               /\ UNCHANGED dev
          ELSE IF BitAnd(result[t].value, DA7281_TOP_CFG1_OP_MODE_MASK)
                     \div 2 ^ DA7281_TOP_CFG1_OP_MODE_SHIFT # Top(t).mode
                  THEN /\ Return(t, DA7281_ERROR_I2C_READ, 0, NULL)
                       /\ UNCHANGED dev
                  ELSE /\ dev' = [dev EXCEPT ![Top(t).device].mode = Top(t).mode]
                       /\ Return(t, DA7281_OK, 0, NULL)
    /\ UNCHANGED << busVars, chip, enable_line, effects, ncalls, call, entry, buslog >>

\* the verification read has returned, whatever it gave: device->mode = mode
SetModeAfterVerify(t) ==
    /\ Running(t, "set_operation_mode", "after_verify")
    /\ dev' = [dev EXCEPT ![Top(t).device].mode = Top(t).mode]
    /\ Return(t, DA7281_OK, 0, NULL)
    /\ UNCHANGED << busVars, chip, enable_line, effects, ncalls, call, entry, buslog >>

\* ------------------------------------------------------------- da7281_init

InitFrame(d) == [fn |-> "init", pc |-> "entry", device |-> d]

\* every identity value passes
ChipIdAny(chip_id) == TRUE

\* the identity check of da7281_init: chip_id != DA7281_CHIP_ID_VALUE is a mismatch
ChipIdAccepted(chip_id) == chip_id = DA7281_CHIP_ID_VALUE

\* the initialized test is missing
InitEntryUnchecked(t) ==
    /\ Running(t, "init", "entry")
    /\ stack' = SetTopAndCall(t, [Top(t) EXCEPT !.pc = "after_chip_id"],
                    ReadFrame(Top(t).device, "CHIP_ID"))
    /\ UNCHANGED << busVars, dev, chip, result, enable_line, effects, ncalls, call, entry, buslog >>

\* the initialized test, then da7281_read_chip_id
InitEntry(t) ==
    /\ Running(t, "init", "entry")
    /\ IF dev[Top(t).device].initialized
          THEN Return(t, DA7281_ERROR_ALREADY_INITIALIZED, 0, NULL)
          ELSE /\ stack' = SetTopAndCall(t, [Top(t) EXCEPT !.pc = "after_chip_id"],
                             ReadFrame(Top(t).device, "CHIP_ID"))
               /\ UNCHANGED result
    /\ UNCHANGED << busVars, dev, chip, enable_line, effects, ncalls, call, entry, buslog >>

\* the identity read has returned: its error, a mismatch, or go on to
\* da7281_read_chip_revision
InitAfterChipId(t) ==
    /\ Running(t, "init", "after_chip_id")
    /\ IF result[t].err # DA7281_OK
          THEN Return(t, result[t].err, 0, NULL)
          ELSE IF ~ChipIdAccepted(result[t].value)
                  THEN Return(t, DA7281_ERROR_CHIP_ID_MISMATCH, 0, NULL)
                  ELSE /\ stack' = SetTopAndCall(t, [Top(t) EXCEPT !.pc = "after_revision"],
                                     ReadFrame(Top(t).device, "CHIP_REV"))
                       /\ UNCHANGED result
    /\ UNCHANGED << busVars, dev, chip, enable_line, effects, ncalls, call, entry, buslog >>

\* the revision read has returned, whatever it gave: set the motor type to LRA
InitAfterRevision(t) ==
    /\ Running(t, "init", "after_revision")
    /\ stack' = SetTopAndCall(t, [Top(t) EXCEPT !.pc = "after_motor_type"],
                    ModifyFrame(Top(t).device, "TOP_CFG2",
                                DA7281_TOP_CFG2_MOTOR_TYPE_MASK, DA7281_MOTOR_TYPE_LRA))
    /\ UNCHANGED << busVars, dev, chip, result, enable_line, effects, ncalls, call, entry, buslog >>

\* the motor type write has returned: its error, or go on to the verification read
InitAfterMotorType(t) ==
    /\ Running(t, "init", "after_motor_type")
    /\ IF result[t].err # DA7281_OK
          THEN Return(t, result[t].err, 0, NULL)
          ELSE /\ stack' = SetTopAndCall(t, [Top(t) EXCEPT !.pc = "after_verify"],
                             ReadFrame(Top(t).device, "TOP_CFG2"))
               /\ UNCHANGED result
    /\ UNCHANGED << busVars, dev, chip, enable_line, effects, ncalls, call, entry, buslog >>

\* the handle is marked initialized before the mode is set, and stays so
InitAfterVerifyMarking(t) ==
    /\ Running(t, "init", "after_verify")
    /\ stack' = SetTopAndCall(t, [Top(t) EXCEPT !.pc = "after_mode"],
                    SetModeFrame(Top(t).device, DA7281_MODE_INACTIVE))
    /\ dev' = [dev EXCEPT ![Top(t).device].initialized = TRUE]
    /\ UNCHANGED << busVars, chip, result, enable_line, effects, ncalls, call, entry, buslog >>

\* the verification read has returned, whatever it gave:
\* da7281_set_operation_mode(device, DA7281_MODE_INACTIVE)
InitAfterVerify(t) ==
    /\ Running(t, "init", "after_verify")
    /\ stack' = SetTopAndCall(t, [Top(t) EXCEPT !.pc = "after_mode"],
                    SetModeFrame(Top(t).device, DA7281_MODE_INACTIVE))
    /\ UNCHANGED << busVars, dev, chip, result, enable_line, effects, ncalls, call, entry, buslog >>

\* the mode set has returned: its error, or the handle becomes initialized
InitAfterMode(t) ==
    /\ Running(t, "init", "after_mode")
    /\ IF result[t].err # DA7281_OK
          THEN /\ Return(t, result[t].err, 0, NULL)
               /\ UNCHANGED dev
          ELSE /\ dev' = [dev EXCEPT ![Top(t).device].initialized = TRUE,
                                     ![Top(t).device].mode = DA7281_MODE_INACTIVE]
               /\ Return(t, DA7281_OK, 0, NULL)
    /\ UNCHANGED << busVars, chip, enable_line, effects, ncalls, call, entry, buslog >>

\* ----------------------------------------------- da7281_get_operation_mode

GetModeFrame(d) == [fn |-> "get_operation_mode", pc |-> "entry", device |-> d]

\* DA7281_CHECK_DEVICE, then the read of TOP_CFG1
GetModeEntry(t) ==
    /\ Running(t, "get_operation_mode", "entry")
    /\ IF NotInitialized(Top(t).device)
          THEN Return(t, DA7281_ERROR_NOT_INITIALIZED, 0, NULL)
          ELSE /\ stack' = SetTopAndCall(t, [Top(t) EXCEPT !.pc = "after_read"],
                             ReadFrame(Top(t).device, "TOP_CFG1"))
               /\ UNCHANGED result
    /\ UNCHANGED << busVars, dev, chip, enable_line, effects, ncalls, call, entry, buslog >>

\* the read has returned: its error, or *mode = the mode bits of the byte
GetModeAfterRead(t) ==
    /\ Running(t, "get_operation_mode", "after_read")
    /\ IF result[t].err # DA7281_OK
          THEN Return(t, result[t].err, 0, NULL)
          ELSE Return(t, DA7281_OK,
                      BitAnd(result[t].value, DA7281_TOP_CFG1_OP_MODE_MASK)
                         \div 2 ^ DA7281_TOP_CFG1_OP_MODE_SHIFT,
                      NULL)
    /\ UNCHANGED << busVars, dev, chip, enable_line, effects, ncalls, call, entry, buslog >>

\* --------------------------------------------- da7281_set_amplifier_enable

AmplifierFrame(d, enable) ==
    [fn |-> "set_amplifier_enable", pc |-> "entry", device |-> d, enable |-> enable]

\* DA7281_CHECK_DEVICE, then the masked write of the amplifier-enable bit
AmplifierEntry(t) ==
    /\ Running(t, "set_amplifier_enable", "entry")
    /\ IF NotInitialized(Top(t).device)
          THEN Return(t, DA7281_ERROR_NOT_INITIALIZED, 0, NULL)
          ELSE /\ stack' = SetTopAndCall(t, [Top(t) EXCEPT !.pc = "after_modify"],
                             ModifyFrame(Top(t).device, "TOP_CFG1", DA7281_TOP_CFG1_AMP_EN,
                                         IF Top(t).enable THEN DA7281_TOP_CFG1_AMP_EN ELSE 0))
               /\ UNCHANGED result
    /\ UNCHANGED << busVars, dev, chip, enable_line, effects, ncalls, call, entry, buslog >>

\* the masked write has returned: its error, or DA7281_OK
AmplifierAfterModify(t) ==
    /\ Running(t, "set_amplifier_enable", "after_modify")
    /\ Return(t, result[t].err, 0, NULL)
    /\ UNCHANGED << busVars, dev, chip, enable_line, effects, ncalls, call, entry, buslog >>

\* ------------------------------------------- da7281_set_override_amplitude

OverrideFrame(d, amplitude) ==
    [fn |-> "set_override_amplitude", pc |-> "entry", device |-> d,
     amplitude |-> amplitude]

\* DA7281_CHECK_DEVICE, then the masked write of the override-enable bit
OverrideEntry(t) ==
    /\ Running(t, "set_override_amplitude", "entry")
    /\ IF NotInitialized(Top(t).device)
          THEN Return(t, DA7281_ERROR_NOT_INITIALIZED, 0, NULL)
          ELSE /\ stack' = SetTopAndCall(t, [Top(t) EXCEPT !.pc = "after_modify"],
                             ModifyFrame(Top(t).device, "GEN_CFG2",
                                         DA7281_GEN_CFG2_OVERRIDE_EN,
                                         DA7281_GEN_CFG2_OVERRIDE_EN))
               /\ UNCHANGED result
    /\ UNCHANGED << busVars, dev, chip, enable_line, effects, ncalls, call, entry, buslog >>

\* the masked write has returned: its error, or the write of the amplitude byte
OverrideAfterModify(t) ==
    /\ Running(t, "set_override_amplitude", "after_modify")
    /\ IF result[t].err # DA7281_OK
          THEN Return(t, result[t].err, 0, NULL)
          ELSE /\ stack' = SetTopAndCall(t, [Top(t) EXCEPT !.pc = "after_write"],
                             WriteFrame(Top(t).device, "OVERRIDE_AMP", Top(t).amplitude))
               /\ UNCHANGED result
    /\ UNCHANGED << busVars, dev, chip, enable_line, effects, ncalls, call, entry, buslog >>

\* the amplitude write has returned: its error, or DA7281_OK
OverrideAfterWrite(t) ==
    /\ Running(t, "set_override_amplitude", "after_write")
    /\ Return(t, result[t].err, 0, NULL)
    /\ UNCHANGED << busVars, dev, chip, enable_line, effects, ncalls, call, entry, buslog >>

\* ----------------------------------------------------- da7281_run_selftest

SelftestFrame(d) ==
    [fn |-> "run_selftest", pc |-> "entry", device |-> d,
     saved_mode |-> DA7281_MODE_INACTIVE, passed |-> 0]

\* the call that triggers the self-test
SelftestTriggerFrame(d) == WriteFrame(d, "SELFTEST_CFG", SelftestTrigger)

\* DA7281_CHECK_DEVICE, saved_mode = device->mode, then the switch to INACTIVE if
\* the handle records another mode, else the trigger write
SelftestEntry(t) ==
    /\ Running(t, "run_selftest", "entry")
    /\ IF NotInitialized(Top(t).device)
          THEN Return(t, DA7281_ERROR_NOT_INITIALIZED, 0, NULL)
          ELSE LET saved == [Top(t) EXCEPT !.saved_mode = dev[Top(t).device].mode] IN
               /\ stack' = IF dev[Top(t).device].mode # DA7281_MODE_INACTIVE
                              THEN SetTopAndCall(t, [saved EXCEPT !.pc = "after_inactive"],
                                      SetModeFrame(Top(t).device, DA7281_MODE_INACTIVE))
                              ELSE SetTopAndCall(t, [saved EXCEPT !.pc = "after_trigger"],
                                      SelftestTriggerFrame(Top(t).device))
               /\ UNCHANGED result
    /\ UNCHANGED << busVars, dev, chip, enable_line, effects, ncalls, call, entry, buslog >>

\* the switch to INACTIVE has returned: its error, or the trigger write
SelftestAfterInactive(t) ==
    /\ Running(t, "run_selftest", "after_inactive")
    /\ IF result[t].err # DA7281_OK
          THEN Return(t, result[t].err, 0, NULL)
          ELSE /\ stack' = SetTopAndCall(t, [Top(t) EXCEPT !.pc = "after_trigger"],
                             SelftestTriggerFrame(Top(t).device))
               /\ UNCHANGED result
    /\ UNCHANGED << busVars, dev, chip, enable_line, effects, ncalls, call, entry, buslog >>

\* the trigger write has returned: its error, or (after the delay) the read of the
\* result register
SelftestAfterTrigger(t) ==
    /\ Running(t, "run_selftest", "after_trigger")
    /\ IF result[t].err # DA7281_OK
          THEN Return(t, result[t].err, 0, NULL)
          ELSE /\ stack' = SetTopAndCall(t, [Top(t) EXCEPT !.pc = "after_result"],
                             ReadFrame(Top(t).device, "SELFTEST_RESULT"))
               /\ UNCHANGED result
    /\ UNCHANGED << busVars, dev, chip, enable_line, effects, ncalls, call, entry, buslog >>

\* a self-test that did not pass is reported as an error
SelftestAfterResultFailing(t) ==
    /\ Running(t, "run_selftest", "after_result")
    /\ IF result[t].err # DA7281_OK
          THEN Return(t, result[t].err, 0, NULL)
          ELSE IF result[t].value # DA7281_SELFTEST_RESULT_PASS
                  THEN Return(t, "SELFTEST_FAILED", 0, NULL)
                  ELSE IF Top(t).saved_mode # DA7281_MODE_INACTIVE
                          THEN /\ stack' = SetTopAndCall(t,
                                              [Top(t) EXCEPT !.pc = "after_restore", !.passed = 1],
                                              SetModeFrame(Top(t).device, Top(t).saved_mode))
                               /\ UNCHANGED result
                          ELSE Return(t, DA7281_OK, 1, NULL)
    /\ UNCHANGED << busVars, dev, chip, enable_line, effects, ncalls, call, entry, buslog >>

\* the result read has returned: its error, or *passed is set and the saved mode,
\* if it was not INACTIVE, is restored
SelftestAfterResult(t) ==
    /\ Running(t, "run_selftest", "after_result")
    /\ IF result[t].err # DA7281_OK
          THEN Return(t, result[t].err, 0, NULL)
          ELSE LET passed == IF result[t].value = DA7281_SELFTEST_RESULT_PASS THEN 1 ELSE 0 IN
               IF Top(t).saved_mode # DA7281_MODE_INACTIVE
                  THEN /\ stack' = SetTopAndCall(t,
                                      [Top(t) EXCEPT !.pc = "after_restore", !.passed = passed],
                                      SetModeFrame(Top(t).device, Top(t).saved_mode))
                       /\ UNCHANGED result
                  ELSE Return(t, DA7281_OK, passed, NULL)
    /\ UNCHANGED << busVars, dev, chip, enable_line, effects, ncalls, call, entry, buslog >>

\* a failed restore is returned as the result of the self-test
SelftestAfterRestorePropagating(t) ==
    /\ Running(t, "run_selftest", "after_restore")
    /\ Return(t, result[t].err, Top(t).passed, NULL)
    /\ UNCHANGED << busVars, dev, chip, enable_line, effects, ncalls, call, entry, buslog >>

\* the restore has returned, whatever it gave: DA7281_OK
SelftestAfterRestore(t) ==
    /\ Running(t, "run_selftest", "after_restore")
    /\ Return(t, DA7281_OK, Top(t).passed, NULL)
    /\ UNCHANGED << busVars, dev, chip, enable_line, effects, ncalls, call, entry, buslog >>

\* ------------------------------------------------------------ da7281_deinit

DeinitFrame(d) == [fn |-> "deinit", pc |-> "entry", device |-> d]

\* a handle that is not initialized is refused, as by DA7281_CHECK_DEVICE
DeinitEntryChecking(t) ==
    /\ Running(t, "deinit", "entry")
    /\ IF ~dev[Top(t).device].initialized
          THEN Return(t, DA7281_ERROR_NOT_INITIALIZED, 0, NULL)
          ELSE /\ stack' = SetTopAndCall(t, [Top(t) EXCEPT !.pc = "after_mode"],
                             SetModeFrame(Top(t).device, DA7281_MODE_INACTIVE))
               /\ UNCHANGED result
    /\ UNCHANGED << busVars, dev, chip, enable_line, effects, ncalls, call, entry, buslog >>

\* a handle that is not initialized: DA7281_OK at once; else set_operation_mode to
\* INACTIVE
DeinitEntry(t) ==
    /\ Running(t, "deinit", "entry")
    /\ IF ~dev[Top(t).device].initialized
          THEN Return(t, DA7281_OK, 0, NULL)
          ELSE /\ stack' = SetTopAndCall(t, [Top(t) EXCEPT !.pc = "after_mode"],
                             SetModeFrame(Top(t).device, DA7281_MODE_INACTIVE))
               /\ UNCHANGED result
    /\ UNCHANGED << busVars, dev, chip, enable_line, effects, ncalls, call, entry, buslog >>

\* the amplifier is left alone when the mode change failed
DeinitAfterModeStopping(t) ==
    /\ Running(t, "deinit", "after_mode")
    /\ IF result[t].err # DA7281_OK
          THEN /\ stack' = SetTop(t, [Top(t) EXCEPT !.pc = "after_amplifier"])
               /\ UNCHANGED result
          ELSE /\ stack' = SetTopAndCall(t, [Top(t) EXCEPT !.pc = "after_amplifier"],
                             AmplifierFrame(Top(t).device, FALSE))
               /\ UNCHANGED result
    /\ UNCHANGED << busVars, dev, chip, enable_line, effects, ncalls, call, entry, buslog >>

\* the mode change has returned, whatever it gave: set_amplifier_enable(false)
DeinitAfterMode(t) ==
    /\ Running(t, "deinit", "after_mode")
    /\ stack' = SetTopAndCall(t, [Top(t) EXCEPT !.pc = "after_amplifier"],
                    AmplifierFrame(Top(t).device, FALSE))
    /\ UNCHANGED << busVars, dev, chip, result, enable_line, effects, ncalls, call, entry, buslog >>

\* the amplifier disable has returned, whatever it gave: initialized = false,
\* DA7281_OK
DeinitAfterAmplifier(t) ==
    /\ Running(t, "deinit", "after_amplifier")
    /\ dev' = [dev EXCEPT ![Top(t).device].initialized = FALSE]
    /\ Return(t, DA7281_OK, 0, NULL)
    /\ UNCHANGED << busVars, chip, enable_line, effects, ncalls, call, entry, buslog >>

CallDeinit(t, d) ==
    /\ d \in Devices
    /\ StartCall(t, DeinitFrame(d))

\* --------------------------------------- da7281_power_on, da7281_power_off

PowerOnFrame(d) == [fn |-> "power_on", pc |-> "entry", device |-> d]

PowerOffFrame(d) == [fn |-> "power_off", pc |-> "entry", device |-> d]

\* t's call makes the GPIO or delay calls ops, in this order
Effected(t, ops) ==
    [effects EXCEPT ![t] =
        @ \o [i \in 1 .. Len(ops) |-> [op |-> ops[i], device |-> Top(t).device, n |-> ncalls[t]]]]

\* the enable line is driven and the delay made again on a powered handle
PowerOnAgain(t) ==
    /\ Running(t, "power_on", "entry")
    /\ effects' = Effected(t, << "cfg_output", "pin_set", "delay" >>)
    /\ enable_line' = [enable_line EXCEPT ![Top(t).device] = TRUE]
    /\ dev' = [dev EXCEPT ![Top(t).device].powered_on = TRUE]
    /\ Return(t, DA7281_OK, 0, NULL)
    /\ UNCHANGED << busVars, chip, ncalls, call, entry, buslog >>

\* already powered: DA7281_OK at once; else the enable pin is made an output and
\* driven high, the settling delay is waited, and the handle is marked powered
PowerOn(t) ==
    /\ Running(t, "power_on", "entry")
    /\ IF dev[Top(t).device].powered_on
          THEN UNCHANGED << dev, enable_line, effects >>
          ELSE /\ effects' = Effected(t, << "cfg_output", "pin_set", "delay" >>)
               /\ enable_line' = [enable_line EXCEPT ![Top(t).device] = TRUE]
               /\ dev' = [dev EXCEPT ![Top(t).device].powered_on = TRUE]
    /\ Return(t, DA7281_OK, 0, NULL)
    /\ UNCHANGED << busVars, chip, ncalls, call, entry, buslog >>

\* the initialized flag survives the power cut
PowerOffKeepingInitialized(t) ==
    /\ Running(t, "power_off", "entry")
    /\ effects' = Effected(t, << "pin_clear" >>)
    /\ enable_line' = [enable_line EXCEPT ![Top(t).device] = FALSE]
    /\ dev' = [dev EXCEPT ![Top(t).device].powered_on = FALSE]
    /\ Return(t, DA7281_OK, 0, NULL)
    /\ UNCHANGED << busVars, chip, ncalls, call, entry, buslog >>

\* the enable pin is driven low whatever the state, and the handle is marked
\* neither powered nor initialized
PowerOff(t) ==
    /\ Running(t, "power_off", "entry")
    /\ effects' = Effected(t, << "pin_clear" >>)
    /\ enable_line' = [enable_line EXCEPT ![Top(t).device] = FALSE]
    /\ dev' = [dev EXCEPT ![Top(t).device].powered_on = FALSE,
                          ![Top(t).device].initialized = FALSE]
    /\ Return(t, DA7281_OK, 0, NULL)
    /\ UNCHANGED << busVars, chip, ncalls, call, entry, buslog >>

CallPowerOn(t, d) ==
    /\ d \in Devices
    /\ StartCall(t, PowerOnFrame(d))

CallPowerOff(t, d) ==
    /\ d \in Devices
    /\ StartCall(t, PowerOffFrame(d))

CallGetOperationMode(t, d) ==
    /\ d \in Devices
    /\ StartCall(t, GetModeFrame(d))

CallSetAmplifierEnable(t, d, enable) ==
    /\ d \in Devices
    /\ StartCall(t, AmplifierFrame(d, enable))

CallSetOverrideAmplitude(t, d, amplitude) ==
    /\ d \in Devices
    /\ StartCall(t, OverrideFrame(d, amplitude))

CallRunSelftest(t, d) ==
    /\ d \in Devices
    /\ StartCall(t, SelftestFrame(d))

\* ---------------------------------------------------- da7281_configure_lra

LraConfig(resonant_freq_hz, impedance_ohm, nom_max_v_rms, abs_max_v_peak, max_current_ma) ==
    [resonant_freq_hz |-> resonant_freq_hz, impedance_ohm |-> impedance_ohm,
     nom_max_v_rms |-> nom_max_v_rms, abs_max_v_peak |-> abs_max_v_peak,
     max_current_ma |-> max_current_ma]

\* the current limit is not checked
LraConfigValidNoCurrent(config) ==
    /\ ~(config.resonant_freq_hz < 50 \/ config.resonant_freq_hz > 300)
    /\ ~(config.impedance_ohm < 100 \/ config.impedance_ohm > 5000)
    /\ ~(config.nom_max_v_rms < 50 \/ config.nom_max_v_rms > 600)
    /\ ~(config.abs_max_v_peak < 100 \/ config.abs_max_v_peak > 1200)

\* the five DA7281_CHECK_RANGE of da7281_configure_lra all pass
LraConfigValid(config) ==
    /\ ~(config.resonant_freq_hz < 50 \/ config.resonant_freq_hz > 300)
    /\ ~(config.impedance_ohm < 100 \/ config.impedance_ohm > 5000)
    /\ ~(config.nom_max_v_rms < 50 \/ config.nom_max_v_rms > 600)
    /\ ~(config.abs_max_v_peak < 100 \/ config.abs_max_v_peak > 1200)
    /\ ~(config.max_current_ma < 50 \/ config.max_current_ma > 500)

\* roundf(n / d) for n >= 0, d > 0: to nearest, halves away from zero
RoundDiv(n, d) == (2 * n + d) \div (2 * d)

\* (uintN_t) of a non-negative float with integral part x: x if it fits; if not the
\* conversion is undefined, and builds give the low bits or the largest value
CastOutcomes(x, bits) ==
    IF x < 2 ^ bits THEN {x} ELSE {x % (2 ^ bits), 2 ^ bits - 1}

\* "clamped to 1" of lra_per and v2i_factor
AtLeastOne(x) == IF x = 0 THEN 1 ELSE x

\* uint16_t lra_per
LraPer(config) ==
    {AtLeastOne(x) :
        x \in CastOutcomes(RoundDiv(LraPerLsbPerSecond, config.resonant_freq_hz), 16)}

\* uint16_t v2i_factor
V2iFactor(config) ==
    {AtLeastOne(x) :
        x \in CastOutcomes(RoundDiv(config.impedance_ohm * DA7281_V2I_FACTOR_SCALE, 1000), 16)}

\* uint8_t nommax, absmax, imax: the float quotient, truncated
Nommax(config) ==
    CastOutcomes((config.nom_max_v_rms * 100) \div DA7281_ACTUATOR_NOMMAX_SCALE, ByteBits)

Absmax(config) ==
    CastOutcomes((config.abs_max_v_peak * 100) \div DA7281_ACTUATOR_ABSMAX_SCALE, ByteBits)

Imax(config) ==
    CastOutcomes((config.max_current_ma * 10) \div DA7281_ACTUATOR_IMAX_SCALE, ByteBits)

\* the bytes configure_lra writes, in the order it writes them
LraBytes(config) ==
    {<< per \div 256, per % 256, v2i \div 256, v2i % 256, nommax, absmax, imax >> :
        per \in LraPer(config), v2i \in V2iFactor(config), nommax \in Nommax(config),
        absmax \in Absmax(config), imax \in Imax(config)}

\* the voltage limits are written in the other order
LraRegistersSwapped ==
    << "LRA_PER_H", "LRA_PER_L", "V2I_FACTOR_H", "V2I_FACTOR_L",
       "ACTUATOR_ABSMAX", "ACTUATOR_NOMMAX", "ACTUATOR_IMAX" >>

\* the registers configure_lra writes, in the order it writes them
LraRegisters ==
    << "LRA_PER_H", "LRA_PER_L", "V2I_FACTOR_H", "V2I_FACTOR_L",
       "ACTUATOR_NOMMAX", "ACTUATOR_ABSMAX", "ACTUATOR_IMAX" >>

ConfigureFrame(d, config) ==
    [fn |-> "configure_lra", pc |-> "entry", device |-> d, config |-> config,
     k |-> 0, bytes |-> << >>]

\* the k-th register write of configure_lra
ConfigureWrite(t, bytes, k) ==
    SetTopAndCall(t, [Top(t) EXCEPT !.pc = "after_write", !.k = k, !.bytes = bytes],
                  WriteFrame(Top(t).device, LraRegisters[k], bytes[k]))

\* DA7281_CHECK_DEVICE, the range checks, the register codes, the first write
ConfigureEntry(t) ==
    /\ Running(t, "configure_lra", "entry")
    /\ IF NotInitialized(Top(t).device)
          THEN Return(t, DA7281_ERROR_NOT_INITIALIZED, 0, NULL)
          ELSE IF ~LraConfigValid(Top(t).config)
                  THEN Return(t, DA7281_ERROR_INVALID_PARAM, 0, NULL)
                  ELSE /\ \E bytes \in LraBytes(Top(t).config) :
                             stack' = ConfigureWrite(t, bytes, 1)
                       /\ UNCHANGED result
    /\ UNCHANGED << busVars, dev, chip, enable_line, effects, ncalls, call, entry, buslog >>

\* a failed write does not stop the sequence
ConfigureAfterWriteIgnoring(t) ==
    /\ Running(t, "configure_lra", "after_write")
    /\ IF Top(t).k = LraWrites
          THEN Return(t, result[t].err, 0, NULL)
          ELSE /\ stack' = ConfigureWrite(t, Top(t).bytes, Top(t).k + 1)
               /\ UNCHANGED result
    /\ UNCHANGED << busVars, dev, chip, enable_line, effects, ncalls, call, entry, buslog >>

\* a write has returned: its error, or the next write, or DA7281_OK after the last
ConfigureAfterWrite(t) ==
    /\ Running(t, "configure_lra", "after_write")
    /\ IF result[t].err # DA7281_OK
          THEN Return(t, result[t].err, 0, NULL)
          ELSE IF Top(t).k = LraWrites
                  THEN Return(t, DA7281_OK, 0, NULL)
                  ELSE /\ stack' = ConfigureWrite(t, Top(t).bytes, Top(t).k + 1)
                       /\ UNCHANGED result
    /\ UNCHANGED << busVars, dev, chip, enable_line, effects, ncalls, call, entry, buslog >>

CallConfigureLra(t, d, config) ==
    /\ d \in Devices
    /\ StartCall(t, ConfigureFrame(d, config))

CallInit(t, d) ==
    /\ d \in Devices
    /\ StartCall(t, InitFrame(d))

CallSetOperationMode(t, d, mode) ==
    /\ d \in Devices
    /\ StartCall(t, SetModeFrame(d, mode))

\* the steps of the device state machine
DeviceStep(t) ==
    \/ SetModeEntry(t)
    \/ SetModeAfterModify(t)
    \/ SetModeAfterVerify(t)
    \/ InitEntry(t)
    \/ InitAfterChipId(t)
    \/ InitAfterRevision(t)
    \/ InitAfterMotorType(t)
    \/ InitAfterVerify(t)
    \/ InitAfterMode(t)
    \/ GetModeEntry(t)
    \/ GetModeAfterRead(t)
    \/ AmplifierEntry(t)
    \/ AmplifierAfterModify(t)
    \/ OverrideEntry(t)
    \/ OverrideAfterModify(t)
    \/ OverrideAfterWrite(t)
    \/ SelftestEntry(t)
    \/ SelftestAfterInactive(t)
    \/ SelftestAfterTrigger(t)
    \/ SelftestAfterResult(t)
    \/ SelftestAfterRestore(t)
    \/ ConfigureEntry(t)
    \/ ConfigureAfterWrite(t)

\* ------------------------------------------------------- initial states

\* a handle as the caller builds it
\* a powered handle; powered_on is the flag the tests and the example set
Handle(instance, initialized, mode) ==
    [twi_instance |-> instance, initialized |-> initialized, mode |-> mode,
     powered_on |-> TRUE]

\* the same handle, not powered
Unpowered(h) == [h EXCEPT !.powered_on = FALSE]

\* no top-level call was made yet
NoCall == [fn |-> "none"]

\* power-on register contents
ChipReset(chip_id) ==
    [r \in Registers |-> IF r = "CHIP_ID" THEN chip_id ELSE 0]

InitBus ==
    /\ s_i2c_mutex = [b \in Buses |-> NULL]
    /\ s_twi_initialized = [b \in Buses |-> FALSE]
    /\ s_twi_pins = [b \in Buses |-> [configured |-> FALSE]]
    /\ twi_drv = [b \in Buses |-> FALSE]
    /\ mutexes = << >>

\* the enable line of a handle marked powered is high; no GPIO or delay call yet
InitEnable ==
    /\ enable_line = [d \in Devices |-> dev[d].powered_on]
    /\ effects = [t \in Tasks |-> << >>]

InitTasks ==
    /\ stack = [t \in Tasks |-> << >>]
    /\ result = [t \in Tasks |-> NoResult]
    /\ ncalls = [t \in Tasks |-> 0]
    /\ call = [t \in Tasks |-> NoCall]
    /\ entry = [t \in Tasks |-> Handle(0, FALSE, 0)]
    /\ buslog = [t \in Tasks |-> << >>]

\* the concurrent bus layer: devA on bus 0, devB on any instance number
Init ==
    /\ InitBus
    /\ InitTasks
    /\ \E i \in TwiInstances :
          dev = [d \in Devices |-> IF d = "devA" THEN Handle(0, FALSE, 0) ELSE Handle(i, FALSE, 0)]
    /\ chip = [d \in Devices |-> ChipReset(DA7281_CHIP_ID_VALUE)]
    /\ InitEnable

\* the raw register accesses the tasks issue
RawWriteValues == {255}

RawModifyArgs == {<<7, 1>>}

\* each task drives its own chip
OwnDevice == {<<"t1", "devA">>, <<"t2", "devB">>}

Next ==
    \/ \E d \in Devices : ConfigurePins(dev[d].twi_instance)
    \/ \E p \in OwnDevice, v \in RawWriteValues : CallWriteRegister(p[1], p[2], "TOP_CFG1", v)
    \/ \E p \in OwnDevice : CallReadRegister(p[1], p[2], "TOP_CFG1")
    \/ \E p \in OwnDevice, a \in RawModifyArgs :
          CallModifyRegister(p[1], p[2], "TOP_CFG1", a[1], a[2])
    \/ \E t \in Tasks : BusStep(t)

Spec == Init /\ [][Next]_vars

\* the scheduler keeps running task t1 while it has a step to take; task t2 may
\* stall anywhere, also while it holds a bus lock
SpecFair == Init /\ [][Next]_vars /\ WF_vars(BusStep("t1"))

\* ------------------------------------- modify_register on sampled bytes

ByteSamples == {0, 1, 7, 8, 40, 90, 165, 240, 255}

\* task t1 has called modify_register on devA with a sampled mask and value; the
\* register holds a sampled byte
InitRmw ==
    /\ InitBus
    /\ ncalls = [t \in Tasks |-> IF t = "t1" THEN 1 ELSE 0]
    /\ result = [t \in Tasks |-> NoResult]
    /\ entry = [t \in Tasks |-> Handle(0, FALSE, 0)]
    /\ buslog = [t \in Tasks |-> << >>]
    /\ dev = [d \in Devices |-> Handle(0, FALSE, 0)]
    /\ InitEnable
    /\ \E old \in ByteSamples :
          chip = [d \in Devices |->
                    [r \in Registers |-> IF d = "devA" /\ r = "TOP_CFG1" THEN old ELSE 0]]
    /\ \E mask \in ByteSamples, value \in ByteSamples :
          /\ stack = [t \in Tasks |->
                        IF t = "t1" THEN << ModifyFrame("devA", "TOP_CFG1", mask, value) >>
                        ELSE << >>]
          /\ call = [t \in Tasks |->
                       IF t = "t1" THEN ModifyFrame("devA", "TOP_CFG1", mask, value)
                       ELSE NoCall]

NextRmw ==
    \/ ConfigurePins(dev["devA"].twi_instance)
    \/ SeqBusStep("t1")

SpecRmw == InitRmw /\ [][NextRmw]_vars

\* ------------------------------------------ the device state machine alone

\* handles as callers build them: fresh, or marked initialized by the caller
DevHandles ==
    {Handle(0, FALSE, 0), Handle(0, TRUE, 0), Handle(0, TRUE, 1),
     Unpowered(Handle(0, FALSE, 0))}

\* identity bytes a chip may answer with
ChipIds == {DA7281_CHIP_REV_VALUE, DA7281_CHIP_REV_LEGACY_VALUE, 255, 0}

\* the reference actuator: 170 Hz, 6.75 ohm, 2.5 V RMS, 3.5 V peak, 350 mA
LraReference == LraConfig(170, 675, 250, 350, 350)

\* configurations passed to configure_lra: the reference, and 500 Hz
LraInputs == {LraReference, [LraReference EXCEPT !.resonant_freq_hz = 500]}

\* amplitude arguments of set_override_amplitude
AmplitudeInputs == {0, 255}

\* bytes the chip may leave in SELFTEST_RESULT
SelftestResults == {DA7281_SELFTEST_RESULT_PASS, 0}

\* mode arguments of set_operation_mode
ModeInputs == {0, 1, 5, 6, 7, 255}

InitDev ==
    /\ InitBus
    /\ InitTasks
    /\ \E h \in DevHandles :
          dev = [d \in Devices |-> IF d = "devA" THEN h ELSE Handle(1, FALSE, 0)]
    /\ InitEnable
    /\ \E id \in ChipIds, res \in SelftestResults :
          chip = [d \in Devices |-> [ChipReset(id) EXCEPT !["SELFTEST_RESULT"] = res]]

NextDev ==
    \/ ConfigurePins(dev["devA"].twi_instance)
    \/ CallInit("t1", "devA")
    \/ \E mode \in ModeInputs : CallSetOperationMode("t1", "devA", mode)
    \/ CallGetOperationMode("t1", "devA")
    \/ \E enable \in BOOLEAN : CallSetAmplifierEnable("t1", "devA", enable)
    \/ \E amplitude \in AmplitudeInputs : CallSetOverrideAmplitude("t1", "devA", amplitude)
    \/ CallRunSelftest("t1", "devA")
    \/ \E config \in LraInputs : CallConfigureLra("t1", "devA", config)
    \/ SeqBusStep("t1")
    \/ DeviceStep("t1")

SpecDev == InitDev /\ [][NextDev]_vars

\* ------------------------------------------ configure_lra on sampled inputs

\* the reference with one field varied: below, at and above each bound
LraSamples ==
    {[LraReference EXCEPT !.resonant_freq_hz = x] : x \in {49, 50, 170, 300, 301, 500}}
    \cup {[LraReference EXCEPT !.impedance_ohm = x] : x \in {99, 100, 5000, 5001, 10000}}
    \cup {[LraReference EXCEPT !.nom_max_v_rms = x] : x \in {49, 50, 600, 601}}
    \cup {[LraReference EXCEPT !.abs_max_v_peak = x] : x \in {99, 100, 1200, 1201}}
    \cup {[LraReference EXCEPT !.max_current_ma = x] : x \in {49, 50, 500, 501}}

\* the steps of a register write by a task running alone
SeqWriteStep(t) ==
    \/ InitMutexCheck(t)
    \/ CreateMutex(t)
    \/ CheckMutexCreated(t)
    \/ InitTwiCheck(t)
    \/ CheckPins(t)
    \/ DrvInit(t)
    \/ TwiEnable(t)
    \/ MutexTake(t)
    \/ WriteTx(t)
    \/ MutexGive(t)

\* task t1 has called configure_lra on the initialized handle devA
InitLra ==
    /\ InitBus
    /\ ncalls = [t \in Tasks |-> IF t = "t1" THEN 1 ELSE 0]
    /\ result = [t \in Tasks |-> NoResult]
    /\ entry = [t \in Tasks |-> Handle(0, TRUE, 0)]
    /\ buslog = [t \in Tasks |-> << >>]
    /\ dev = [d \in Devices |-> Handle(0, TRUE, 0)]
    /\ InitEnable
    /\ chip = [d \in Devices |-> ChipReset(DA7281_CHIP_ID_VALUE)]
    /\ \E config \in LraSamples :
          /\ stack = [t \in Tasks |->
                        IF t = "t1" THEN << ConfigureFrame("devA", config) >> ELSE << >>]
          /\ call = [t \in Tasks |->
                       IF t = "t1" THEN ConfigureFrame("devA", config) ELSE NoCall]

NextLra ==
    \/ ConfigurePins(dev["devA"].twi_instance)
    \/ SeqWriteStep("t1")
    \/ ConfigureEntry("t1")
    \/ ConfigureAfterWrite("t1")

SpecLra == InitLra /\ [][NextLra]_vars

\* ------------------------------------------------------------ the claims

AccessFns == {"write_register", "read_register"}

\* t is between the acquisition and the release of a bus lock
InCritical(t) ==
    /\ stack[t] # << >>
    /\ Top(t).fn \in AccessFns
    /\ Top(t).pc \in {"tx", "tx_addr", "rx", "give"}

\* t is at a transfer on the bus
Transferring(t) ==
    /\ stack[t] # << >>
    /\ Top(t).fn \in AccessFns
    /\ Top(t).pc \in {"tx", "tx_addr", "rx"}

\* a modify_register call of t has read the register and not yet written it back
InModifyGap(t) ==
    \E i \in 1 .. Len(stack[t]) :
       /\ stack[t][i].fn = "modify_register"
       /\ \/ /\ i = Len(stack[t])
             /\ stack[t][i].pc = "after_read"
             /\ result[t].err = DA7281_OK
          \/ /\ i < Len(stack[t])
             /\ stack[t][i].pc = "after_write"
             /\ stack[t][i + 1].pc # "give"

\* the bus of the call on top of t's stack
BusOf(t) == dev[Top(t).device].twi_instance

\* C1: between the register read and the write-back of one modify_register call,
\* no other task has a register access in progress on the same bus.
C1_ModifyHoldsLock ==
    \A t \in Tasks, u \in Tasks :
       (t # u /\ InModifyGap(t) /\ Transferring(u)) => BusOf(t) # BusOf(u)

\* C2: at most one task at a time is between lock acquisition and lock release
\* on one bus.
C2_OneTaskPerBus ==
    \A t \in Tasks, u \in Tasks :
       (t # u /\ InCritical(t) /\ InCritical(u)) => BusOf(t) # BusOf(u)

\* C3: a task holds a bus lock only between the take and the give of an access;
\* once write_register or read_register has returned, it holds none.
C3_NoLeakedLock ==
    \A t \in Tasks, m \in DOMAIN mutexes :
       mutexes[m].holder = t => InCritical(t)

\* C4: at most one lock object is ever created for a bus.
C4_OneLockObject ==
    \A b \in Buses :
       Cardinality({m \in DOMAIN mutexes : mutexes[m].instance = b}) <= 1

\* C5: a task only ever takes, waits for or is timed out by the lock of its own
\* device's bus, and while that lock is free its take succeeds whatever the state
\* of the other bus's lock.
C5_BusIndependence ==
    \A t \in Tasks :
       /\ (stack[t] # << >> /\ Top(t).fn \in AccessFns /\ Top(t).lock # NULL)
             => mutexes[Top(t).lock].instance = BusOf(t)
       /\ (result[t].fn \in AccessFns /\ result[t].lock # NULL)
             => mutexes[result[t].lock].instance = dev[result[t].device].twi_instance
       /\ (Access(t, "take") /\ s_i2c_mutex[Instance(t)] # NULL
              /\ mutexes[s_i2c_mutex[Instance(t)]].holder = NoTask)
             => (ENABLED MutexTake(t)) /\ ~(ENABLED MutexTimeout(t))

\* two tasks are inside their critical sections at once, each holding the lock of
\* its own bus
C5_Witness ==
    \E t \in Tasks, u \in Tasks :
       /\ InCritical(t) /\ InCritical(u)
       /\ BusOf(t) = 0 /\ BusOf(u) = 1
       /\ Top(t).lock # NULL /\ mutexes[Top(t).lock].holder = t
       /\ Top(u).lock # NULL /\ mutexes[Top(u).lock].holder = u

\* the write-back of a modify_register call of t has just returned success
ModifyWritten(t) ==
    /\ Running(t, "modify_register", "after_write")
    /\ result[t].fn = "write_register"
    /\ result[t].err = DA7281_OK

\* C6: when the write-back of modify_register has succeeded, the byte written is,
\* bit by bit, the new bits inside the mask and the byte that was read outside
\* it, and it is the byte the register now holds.
C6_MaskedWrite ==
    \A t \in Tasks :
       ModifyWritten(t) =>
          LET log == buslog[t]
              n == Len(log)
          IN  /\ n >= 2
              /\ log[n].op = "write" /\ log[n].ok
              /\ log[n - 1].op = "rx" /\ log[n - 1].ok
              /\ log[n].reg_addr = Top(t).reg_addr
              /\ log[n - 1].reg_addr = Top(t).reg_addr
              /\ \A k \in 0 .. (ByteBits - 1) :
                    Bit(log[n].value, k) =
                       IF Bit(Top(t).mask, k) = 1 THEN Bit(Top(t).value, k)
                       ELSE Bit(log[n - 1].value, k)
              /\ chip[Top(t).device][Top(t).reg_addr] = log[n].value

\* 0x5A was read, mask 0xF0 and new bits 0xA5 were given, and 0xAA was written
C6_Witness ==
    \E t \in Tasks :
       /\ ModifyWritten(t)
       /\ Top(t).mask = 240 /\ Top(t).value = 165
       /\ buslog[t][Len(buslog[t]) - 1].value = 90
       /\ buslog[t][Len(buslog[t])].value = 170

\* ------------------------------------- self-test, override amplitude: one task

\* initialized handles recording Inactive, DRO, ETWM or Standby
OpsHandles == {Handle(0, TRUE, mode) : mode \in {0, 1, 4, 6}}

\* bytes the result register may hold after a self-test
SelftestBytes == {0, DA7281_SELFTEST_RESULT_PASS, 2, 254, 255}

\* amplitudes for set_override_amplitude
AmplitudeSamples == {0, 1, 128, 255}

\* the steps of run_selftest, set_override_amplitude and set_operation_mode
OpsStep(t) ==
    \/ SelftestEntry(t)
    \/ SelftestAfterInactive(t)
    \/ SelftestAfterTrigger(t)
    \/ SelftestAfterResult(t)
    \/ SelftestAfterRestore(t)
    \/ OverrideEntry(t)
    \/ OverrideAfterModify(t)
    \/ OverrideAfterWrite(t)
    \/ SetModeEntry(t)
    \/ SetModeAfterModify(t)
    \/ SetModeAfterVerify(t)

InitOps ==
    /\ InitBus
    /\ InitTasks
    /\ \E h \in OpsHandles :
          dev = [d \in Devices |-> IF d = "devA" THEN h ELSE Handle(1, FALSE, 0)]
    /\ InitEnable
    /\ \E res \in SelftestBytes :
          chip = [d \in Devices |->
                    [ChipReset(DA7281_CHIP_ID_VALUE) EXCEPT !["SELFTEST_RESULT"] = res]]

NextOps ==
    \/ ConfigurePins(dev["devA"].twi_instance)
    \/ CallRunSelftest("t1", "devA")
    \/ \E amplitude \in AmplitudeSamples : CallSetOverrideAmplitude("t1", "devA", amplitude)
    \/ SeqBusStep("t1")
    \/ OpsStep("t1")

SpecOps == InitOps /\ [][NextOps]_vars

\* -------------------------------------------------- power, deinit: one task

\* handles in each lifecycle state
LifeHandles ==
    {Unpowered(Handle(0, FALSE, 0)), Handle(0, FALSE, 0), Handle(0, TRUE, 0),
     Handle(0, TRUE, 1)}

\* the steps of power_on, power_off, deinit and the functions deinit calls
LifeStep(t) ==
    \/ PowerOn(t)
    \/ PowerOff(t)
    \/ DeinitEntry(t)
    \/ DeinitAfterMode(t)
    \/ DeinitAfterAmplifier(t)
    \/ SetModeEntry(t)
    \/ SetModeAfterModify(t)
    \/ SetModeAfterVerify(t)
    \/ AmplifierEntry(t)
    \/ AmplifierAfterModify(t)
    \/ GetModeEntry(t)
    \/ GetModeAfterRead(t)

InitLife ==
    /\ InitBus
    /\ InitTasks
    /\ \E h \in LifeHandles :
          dev = [d \in Devices |-> IF d = "devA" THEN h ELSE Handle(1, FALSE, 0)]
    /\ InitEnable
    /\ chip = [d \in Devices |-> ChipReset(DA7281_CHIP_ID_VALUE)]

NextLife ==
    \/ ConfigurePins(dev["devA"].twi_instance)
    \/ CallPowerOn("t1", "devA")
    \/ CallPowerOff("t1", "devA")
    \/ CallDeinit("t1", "devA")
    \/ CallGetOperationMode("t1", "devA")
    \/ SeqBusStep("t1")
    \/ LifeStep("t1")

SpecLife == InitLife /\ [][NextLife]_vars

\* ------------------------------------------- two tasks on one device handle

\* bus 0 after an earlier access: its mutex exists and is free, its pins are
\* configured, the TWI driver is initialized and enabled
InitBusReady ==
    /\ s_i2c_mutex = [b \in Buses |-> IF b = 0 THEN 1 ELSE NULL]
    /\ s_twi_initialized = [b \in Buses |-> b = 0]
    /\ s_twi_pins = [b \in Buses |-> [configured |-> b = 0]]
    /\ twi_drv = [b \in Buses |-> b = 0]
    /\ mutexes = << [holder |-> NoTask, instance |-> 0] >>

\* the steps of the bus transaction layer on a bus whose mutex and TWI driver exist
ReadyBusStep(t) ==
    \/ InitMutexCheck(t)
    \/ InitTwiCheck(t)
    \/ MutexTake(t)
    \/ MutexTimeout(t)
    \/ WriteTx(t)
    \/ ReadTxAddr(t)
    \/ ReadRx(t)
    \/ MutexGive(t)
    \/ ModifyRead(t)
    \/ ModifyAfterRead(t)
    \/ ModifyAfterWrite(t)

\* modes the two tasks ask for: DRO and PWM
SharedModes == {1, 2}

\* the steps of set_operation_mode and set_amplifier_enable
SharedStep(t) ==
    \/ SetModeEntry(t)
    \/ SetModeAfterModify(t)
    \/ SetModeAfterVerify(t)
    \/ AmplifierEntry(t)
    \/ AmplifierAfterModify(t)

\* both tasks use the initialized handle devA, in mode Inactive
InitShared ==
    /\ InitBusReady
    /\ InitTasks
    /\ dev = [d \in Devices |-> Handle(0, TRUE, DA7281_MODE_INACTIVE)]
    /\ InitEnable
    /\ chip = [d \in Devices |-> ChipReset(DA7281_CHIP_ID_VALUE)]

NextShared ==
    \/ \E t \in Tasks, mode \in SharedModes : CallSetOperationMode(t, "devA", mode)
    \/ \E enable \in BOOLEAN : CallSetAmplifierEnable("t2", "devA", enable)
    \/ \E t \in Tasks : ReadyBusStep(t)
    \/ \E t \in Tasks : SharedStep(t)

SpecShared == InitShared /\ [][NextShared]_vars

\* ------------------------------- verification reads against a chip that reverts

\* the chip drops what was written to a control register back to its reset value:
\* the case the verification reads of da7281_init and da7281_set_operation_mode
\* look for
ChipReverts(d) ==
    /\ \E r \in {"TOP_CFG1", "TOP_CFG2"} :
          /\ chip[d][r] # 0
          /\ chip' = [chip EXCEPT ![d][r] = 0]
    /\ UNCHANGED << busVars, dev, stack, result, enable_line, effects, ncalls, call,
                    entry, buslog >>

\* a fresh handle, and a handle marked initialized
VerifyHandles == {Handle(0, FALSE, 0), Handle(0, TRUE, 0)}

\* the steps of da7281_init and da7281_set_operation_mode
VerifyStep(t) ==
    \/ InitEntry(t)
    \/ InitAfterChipId(t)
    \/ InitAfterRevision(t)
    \/ InitAfterMotorType(t)
    \/ InitAfterVerify(t)
    \/ InitAfterMode(t)
    \/ SetModeEntry(t)
    \/ SetModeAfterModify(t)
    \/ SetModeAfterVerify(t)

InitVerify ==
    /\ InitBus
    /\ InitTasks
    /\ \E h \in VerifyHandles :
          dev = [d \in Devices |-> IF d = "devA" THEN h ELSE Handle(1, FALSE, 0)]
    /\ InitEnable
    /\ chip = [d \in Devices |-> ChipReset(DA7281_CHIP_ID_VALUE)]

NextVerify ==
    \/ ConfigurePins(dev["devA"].twi_instance)
    \/ ChipReverts("devA")
    \/ CallInit("t1", "devA")
    \/ \E mode \in SharedModes : CallSetOperationMode("t1", "devA", mode)
    \/ SeqBusStep("t1")
    \/ VerifyStep("t1")

SpecVerify == InitVerify /\ [][NextVerify]_vars

\* t's call of da7281_init has returned
InitReturned(t) == Idle(t) /\ result[t].fn = "init"

\* t's top-level call is da7281_init, running or returned
InitCall(t) ==
    \/ InitReturned(t)
    \/ stack[t] # << >> /\ stack[t][1].fn = "init"

\* the handle of t's top-level call
CallDevice(t) == IF Idle(t) THEN result[t].device ELSE stack[t][1].device

\* the identity bytes that t's call has read from the chip
IdentityRead(t) ==
    {buslog[t][i].value : i \in {j \in 1 .. Len(buslog[t]) :
                                   /\ buslog[t][j].op = "rx"
                                   /\ buslog[t][j].reg_addr = "CHIP_ID"
                                   /\ buslog[t][j].ok}}

\* the register writes t's call has put on the bus
WritesIssued(t) == {i \in 1 .. Len(buslog[t]) : buslog[t][i].op = "write"}

\* the current and the legacy revision value
RevisionValues == {DA7281_CHIP_REV_VALUE, DA7281_CHIP_REV_LEGACY_VALUE}

\* C7: init on a powered, not-initialized handle, with no failed bus transaction and an
\* accepted identity byte, returns OK and leaves the handle initialized with
\* recorded mode Inactive.
C7_InitSucceeds ==
    \A t \in Tasks :
       (/\ InitReturned(t)
        /\ entry[t].powered_on
        /\ ~entry[t].initialized
        /\ ~result[t].faults
        /\ \E v \in IdentityRead(t) : ChipIdAccepted(v))
          => /\ result[t].err = DA7281_OK
             /\ dev[result[t].device].initialized
             /\ dev[result[t].device].mode = DA7281_MODE_INACTIVE

\* C8: whenever init has returned an error, the handle is not marked initialized.
C8_ErrorLeavesUninitialized ==
    \A t \in Tasks :
       (InitReturned(t) /\ result[t].err # DA7281_OK)
          => ~dev[result[t].device].initialized

\* C8, amended: whenever init called on a not-initialized handle has returned an
\* error, at any step, the handle is not marked initialized.
C8_ErrorOnFreshHandle ==
    \A t \in Tasks :
       (InitReturned(t) /\ ~entry[t].initialized /\ result[t].err # DA7281_OK)
          => ~dev[result[t].device].initialized

\* init on a not-initialized handle got as far as the final mode-set step, which
\* returned an error
C8_Witness ==
    \E t \in Tasks :
       /\ InitReturned(t)
       /\ ~entry[t].initialized
       /\ result[t].fn = "init" /\ result[t].err = DA7281_ERROR_NOT_INITIALIZED
       /\ \E i \in WritesIssued(t) : buslog[t][i].reg_addr = "TOP_CFG2"
       /\ \E i \in 1 .. Len(buslog[t]) :
             buslog[t][i].op = "rx" /\ buslog[t][i].reg_addr = "TOP_CFG2"
       /\ ~dev[result[t].device].initialized

C10_BothRevisionsAccepted ==
    \A t \in Tasks :
       (InitReturned(t) /\ \E v \in IdentityRead(t) : v \in RevisionValues)
          => result[t].err # DA7281_ERROR_CHIP_ID_MISMATCH

\* C11: init on a handle that is not powered issues no bus transaction, leaves
\* the handle not initialized and returns the not-initialized error.
C11_InitNotPowered ==
    \A t \in Tasks :
       (InitCall(t) /\ ~entry[t].powered_on /\ ~entry[t].initialized)
          => /\ buslog[t] = << >>
             /\ ~dev[CallDevice(t)].initialized
             /\ InitReturned(t) => result[t].err = DA7281_ERROR_NOT_INITIALIZED

\* C12: init on a handle already marked initialized issues no bus transaction,
\* leaves the handle as it was and returns the already-initialized error.
C12_InitTwice ==
    \A t \in Tasks :
       (InitCall(t) /\ entry[t].initialized)
          => /\ buslog[t] = << >>
             /\ dev[CallDevice(t)] = entry[t]
             /\ InitReturned(t) => result[t].err = DA7281_ERROR_ALREADY_INITIALIZED

\* init has returned the already-initialized error for a handle in mode DRO
C12_Witness ==
    \E t \in Tasks :
       /\ InitReturned(t)
       /\ entry[t].initialized /\ entry[t].mode = 1
       /\ result[t].err = DA7281_ERROR_ALREADY_INITIALIZED
       /\ dev[result[t].device] = entry[t]
       /\ buslog[t] = << >>

\* t's top-level call has returned
Returned(t) == Idle(t) /\ call[t].fn # "none"

\* the operations that need an initialized handle
ModeDependentFns ==
    {"configure_lra", "set_operation_mode", "get_operation_mode",
     "set_amplifier_enable", "set_override_amplitude", "run_selftest"}

\* C13: a mode-dependent operation called on a handle that is not marked
\* initialized issues no bus transaction, changes no field of the handle and
\* returns the not-initialized error.
C13_NeedsInitialized ==
    \A t \in Tasks :
       (call[t].fn \in ModeDependentFns /\ ~entry[t].initialized)
          => /\ buslog[t] = << >>
             /\ dev[call[t].device] = entry[t]
             /\ Returned(t) => result[t].err = DA7281_ERROR_NOT_INITIALIZED

\* configure_lra with the reference actuator has returned the not-initialized
\* error for a handle that is not initialized
C13_Witness ==
    \E t \in Tasks :
       /\ Returned(t)
       /\ call[t].fn = "configure_lra" /\ call[t].config = LraReference
       /\ ~entry[t].initialized
       /\ result[t].fn = "configure_lra"
       /\ result[t].err = DA7281_ERROR_NOT_INITIALIZED
       /\ buslog[t] = << >>

\* C14: set_operation_mode on a handle that is not marked initialized returns the
\* not-initialized error whatever mode is requested, legal or not.
C14_LifecycleBeforeRange ==
    \A t \in Tasks :
       (Returned(t) /\ call[t].fn = "set_operation_mode" /\ ~entry[t].initialized)
          => result[t].err = DA7281_ERROR_NOT_INITIALIZED

\* mode 7, which is no mode, was requested on a handle that is not initialized
C14_Witness ==
    \E t \in Tasks :
       /\ Returned(t)
       /\ call[t].fn = "set_operation_mode" /\ call[t].mode = 7
       /\ ~entry[t].initialized
       /\ result[t].err = DA7281_ERROR_NOT_INITIALIZED

\* Inactive, DRO, PWM, RTWM, ETWM, Standby
LegalModes == {0, 1, 2, 3, 4, 6}

\* C15: set_operation_mode on an initialized handle with a value that is none of
\* the six legal mode codes issues no bus transaction, leaves the recorded mode
\* unchanged and returns the invalid-parameter error; the recorded mode is always
\* a legal one.
C15_IllegalModeRejected ==
    \A t \in Tasks :
       /\ (call[t].fn = "set_operation_mode" /\ entry[t].initialized
              /\ call[t].mode \notin LegalModes)
             => /\ buslog[t] = << >>
                /\ dev[call[t].device].mode = entry[t].mode
                /\ Returned(t) => result[t].err = DA7281_ERROR_INVALID_PARAM
       /\ \A d \in Devices : dev[d].mode \in LegalModes

\* the masked mode write of t's call has succeeded
ModeWritten(t) ==
    \E i \in WritesIssued(t) : buslog[t][i].reg_addr = "TOP_CFG1" /\ buslog[t][i].ok

\* the transfers of t's call that failed
FailedTransfers(t) == {i \in 1 .. Len(buslog[t]) : ~buslog[t][i].ok}

\* C16: set_operation_mode on an initialized handle records the requested mode
\* only once the masked mode write has succeeded, and then returns OK; if the read
\* or the write of the read-modify-write fails it returns that error and the
\* recorded mode keeps its previous value.
C16_ModeAfterWrite ==
    \A t \in Tasks :
       (call[t].fn = "set_operation_mode" /\ entry[t].initialized
           /\ call[t].mode \in DA7281_MODE_INACTIVE .. DA7281_MODE_STANDBY)
          => /\ ~Returned(t) => dev[call[t].device].mode = entry[t].mode
             /\ (Returned(t) /\ ModeWritten(t))
                   => /\ result[t].err = DA7281_OK
                      /\ dev[call[t].device].mode = call[t].mode
             /\ (Returned(t) /\ ~ModeWritten(t))
                   => /\ result[t].err # DA7281_OK
                      /\ dev[call[t].device].mode = entry[t].mode
                      /\ \A i \in FailedTransfers(t) :
                            result[t].err = IF buslog[t][i].op = "write"
                                               THEN DA7281_ERROR_I2C_WRITE
                                               ELSE DA7281_ERROR_I2C_READ

\* the mode was changed from Inactive to DRO
C16_Witness ==
    \E t \in Tasks :
       /\ Returned(t)
       /\ call[t].fn = "set_operation_mode" /\ call[t].mode = 1
       /\ entry[t].initialized /\ entry[t].mode = 0
       /\ ModeWritten(t)
       /\ result[t].err = DA7281_OK
       /\ dev[call[t].device].mode = 1

\* t's call is configure_lra on a handle that was initialized when it was called
ConfiguringInitialized(t) == call[t].fn = "configure_lra" /\ entry[t].initialized

\* a field of the actuator specification lies outside its interval: 50..300 Hz,
\* 1.0..50.0 ohm, 0.5..6.0 V RMS, 1.0..12.0 V peak, 50..500 mA
OutOfBounds(config) ==
    \/ config.resonant_freq_hz \notin 50 .. 300
    \/ config.impedance_ohm \notin 100 .. 5000
    \/ config.nom_max_v_rms \notin 50 .. 600
    \/ config.abs_max_v_peak \notin 100 .. 1200
    \/ config.max_current_ma \notin 50 .. 500

\* C17: configure_lra on an initialized handle with an actuator specification that
\* has a field outside its bounds issues no bus write and returns the
\* invalid-parameter error, whichever field it is.
C17_OutOfBoundsRejected ==
    \A t \in Tasks :
       (ConfiguringInitialized(t) /\ OutOfBounds(call[t].config))
          => /\ buslog[t] = << >>
             /\ Returned(t) => result[t].err = DA7281_ERROR_INVALID_PARAM

\* only the current limit, the last field checked, is out of range (501 mA)
C17_Witness ==
    \E t \in Tasks :
       /\ Returned(t)
       /\ ConfiguringInitialized(t)
       /\ call[t].config = [LraReference EXCEPT !.max_current_ma = 501]
       /\ result[t].err = DA7281_ERROR_INVALID_PARAM
       /\ buslog[t] = << >>

\* period high and low byte, voltage-to-current high and low byte, nominal-max
\* voltage, absolute-max voltage, max current
PeriodFirstOrder ==
    << "LRA_PER_H", "LRA_PER_L", "V2I_FACTOR_H", "V2I_FACTOR_L",
       "ACTUATOR_NOMMAX", "ACTUATOR_ABSMAX", "ACTUATOR_IMAX" >>

\* no transfer and no register access of t's call has failed so far
FaultFree(t) == ~result[t].faults /\ FailedTransfers(t) = {}

\* the transfers of t's call so far are writes of the first registers of the
\* order, one each
InOrderSoFar(t) ==
    /\ Len(buslog[t]) <= Len(PeriodFirstOrder)
    /\ \A i \in 1 .. Len(buslog[t]) :
          /\ buslog[t][i].op = "write"
          /\ buslog[t][i].reg_addr = PeriodFirstOrder[i]

\* C18: configure_lra with a valid actuator specification, when no register
\* access fails, issues the seven writes period high, period low,
\* voltage-to-current high, voltage-to-current low, nominal-max, absolute-max,
\* max current in this order and no other, and returns OK.
C18_SevenWritesInOrder ==
    \A t \in Tasks :
       (ConfiguringInitialized(t) /\ ~OutOfBounds(call[t].config) /\ FaultFree(t))
          => /\ InOrderSoFar(t)
             /\ Returned(t) => /\ result[t].err = DA7281_OK
                               /\ Len(buslog[t]) = Len(PeriodFirstOrder)

\* the reference actuator was configured with seven successful writes
C18_Witness ==
    \E t \in Tasks :
       /\ Returned(t)
       /\ ConfiguringInitialized(t)
       /\ call[t].config = LraReference
       /\ FaultFree(t)
       /\ result[t].err = DA7281_OK
       /\ Len(buslog[t]) = 7
       /\ InOrderSoFar(t)

\* the write that configure_lra has just got back failed
WriteJustFailed(t) ==
    /\ Running(t, "configure_lra", "after_write")
    /\ result[t].fn = "write_register"
    /\ result[t].err # DA7281_OK

\* the k-th write of t's call is the one that failed: the k-1 before it are on the
\* bus, successful and in order, and nothing follows it
FailedAt(t, k) ==
    /\ Len(buslog[t]) \in {k - 1, k}
    /\ \A i \in 1 .. Len(buslog[t]) :
          /\ buslog[t][i].op = "write"
          /\ buslog[t][i].reg_addr = PeriodFirstOrder[i]
          /\ buslog[t][i].ok <=> i < k
    /\ Len(buslog[t]) = k => result[t].err = DA7281_ERROR_I2C_WRITE

\* C19: when the k-th register write of configure_lra fails, configure_lra
\* returns the error of that write, the writes before it have been issued and
\* none of the writes after it is issued: the next step the task takes is the
\* return of that error, with no further transfer.
C19_FirstFailureAborts ==
    /\ [](\A t \in Tasks :
            (Returned(t) /\ ConfiguringInitialized(t) /\ result[t].faults)
               => /\ result[t].err # DA7281_OK
                  /\ \E k \in 1 .. LraWrites : FailedAt(t, k))
    /\ [][\A t \in Tasks :
            (WriteJustFailed(t) /\ stack'[t] # stack[t])
               => /\ Returned(t)'
                  /\ result'[t].fn = "configure_lra"
                  /\ result'[t].err = result[t].err
                  /\ buslog'[t] = buslog[t]]_vars

\* the fifth write, of the nominal-max voltage, failed on the bus
C19_Witness ==
    \E t \in Tasks :
       /\ Returned(t)
       /\ ConfiguringInitialized(t)
       /\ result[t].faults
       /\ result[t].err = DA7281_ERROR_I2C_WRITE
       /\ FailedAt(t, 5)
       /\ Len(buslog[t]) = 5

\* the byte values documented for the reference actuator: period 0x1670,
\* voltage-to-current 0x000A, nominal-max 0x6B, absolute-max 0x48, max current 0x2D
DocumentedBytes == << 22, 112, 0, 10, 107, 72, 45 >>

\* C20: configure_lra for the reference actuator (170 Hz, 6.75 ohm, 2.5 V RMS,
\* 3.5 V peak, 350 mA) writes the documented byte values 0x16, 0x70, 0x00, 0x0A,
\* 0x6B, 0x48, 0x2D.
C20_ReferenceBytes ==
    \A t \in Tasks :
       (ConfiguringInitialized(t) /\ call[t].config = LraReference)
          => \A i \in WritesIssued(t) :
                i <= Len(DocumentedBytes) /\ buslog[t][i].value = DocumentedBytes[i]

\* t's call is deinit on a handle that was initialized when it was called
DeinitInitialized(t) == call[t].fn = "deinit" /\ entry[t].initialized

\* the positions in t's log of the writes of TOP_CFG1
Cfg1Writes(t) == {i \in WritesIssued(t) : buslog[t][i].reg_addr = "TOP_CFG1"}

\* C21: deinit on an initialized handle returns OK and leaves the handle not
\* initialized whatever fails on the way; it writes the Inactive mode and then the
\* amplifier disable, and goes on to the amplifier disable whatever the mode
\* change returned, also after a failed mode write.
C21_DeinitBestEffort ==
    /\ [](\A t \in Tasks :
            DeinitInitialized(t)
               => /\ WritesIssued(t) = Cfg1Writes(t)
                  /\ Returned(t)
                        => /\ result[t].err = DA7281_OK
                           /\ ~dev[call[t].device].initialized
                           /\ FaultFree(t)
                                 => \E i, j \in Cfg1Writes(t) :
                                       /\ i < j
                                       /\ Cfg1Writes(t) = {i, j}
                                       /\ BitAnd(buslog[t][i].value,
                                                 DA7281_TOP_CFG1_OP_MODE_MASK) = DA7281_MODE_INACTIVE
                                       /\ BitAnd(buslog[t][j].value, DA7281_TOP_CFG1_AMP_EN) = 0)
    /\ [][\A t \in Tasks :
            (Running(t, "deinit", "after_mode") /\ stack'[t] # stack[t])
               => /\ Running(t, "set_amplifier_enable", "entry")'
                  /\ ~Top(t)'.enable]_vars

\* deinit returned OK although the mode write failed, and the amplifier was
\* disabled after it
C21_Witness ==
    \E t \in Tasks :
       /\ Returned(t)
       /\ DeinitInitialized(t)
       /\ result[t].err = DA7281_OK
       /\ ~dev[call[t].device].initialized
       /\ \E i, j \in Cfg1Writes(t) :
             /\ i < j
             /\ ~buslog[t][i].ok
             /\ buslog[t][j].ok
             /\ BitAnd(buslog[t][j].value, DA7281_TOP_CFG1_AMP_EN) = 0

\* C22: deinit on a handle that is not initialized returns OK, issues no bus
\* transaction and changes no field of the handle; a handle that deinit has
\* returned from is not initialized, so a second deinit in a row is such a call.
C22_DeinitIdempotent ==
    \A t \in Tasks :
       call[t].fn = "deinit"
          => /\ ~entry[t].initialized
                   => /\ buslog[t] = << >>
                      /\ dev[call[t].device] = entry[t]
                      /\ Returned(t) => result[t].err = DA7281_OK
             /\ Returned(t) => ~dev[call[t].device].initialized

\* a second call, deinit on a powered handle that is no longer initialized, has
\* returned
C22_Witness ==
    \E t \in Tasks :
       /\ Returned(t)
       /\ call[t].fn = "deinit"
       /\ ncalls[t] = 2
       /\ entry[t].powered_on /\ ~entry[t].initialized
       /\ result[t].fn = "deinit" /\ result[t].err = DA7281_OK
       /\ buslog[t] = << >>
       /\ dev[call[t].device] = entry[t]

\* t's call is run_selftest on a handle that was initialized when it was called
SelftestInitialized(t) == call[t].fn = "run_selftest" /\ entry[t].initialized

\* the trigger write of t's self-test has succeeded
Triggered(t) ==
    \E i \in WritesIssued(t) : buslog[t][i].reg_addr = "SELFTEST_CFG" /\ buslog[t][i].ok

\* the bytes t's self-test has read from the result register
ResultBytes(t) ==
    {buslog[t][i].value : i \in {j \in 1 .. Len(buslog[t]) :
                                    /\ buslog[t][j].op = "rx"
                                    /\ buslog[t][j].reg_addr = "SELFTEST_RESULT"
                                    /\ buslog[t][j].ok}}

\* what *passed is for a result byte
PassFlag(byte) == IF byte = DA7281_SELFTEST_RESULT_PASS THEN 1 ELSE 0

\* C23: when the trigger write and the result read of run_selftest both succeed,
\* run_selftest returns OK whatever byte was read; passed is true exactly when
\* the byte is the pass pattern.
C23_SelftestVerdict ==
    \A t \in Tasks :
       (Returned(t) /\ SelftestInitialized(t) /\ Triggered(t) /\ ResultBytes(t) # {})
          => /\ result[t].err = DA7281_OK
             /\ \A byte \in ResultBytes(t) :
                   result[t].value = 1 <=> byte = DA7281_SELFTEST_RESULT_PASS

\* a self-test that read 0xFE returned OK with passed false
C23_Witness ==
    \E t \in Tasks :
       /\ Returned(t)
       /\ SelftestInitialized(t)
       /\ Triggered(t)
       /\ ResultBytes(t) = {254}
       /\ result[t].err = DA7281_OK
       /\ result[t].value = 0

\* the mode write that restores the saved mode has succeeded: the second
\* successful write of the mode register
Restored(t) ==
    \E i, j \in Cfg1Writes(t) : i < j /\ buslog[t][i].ok /\ buslog[t][j].ok

\* C24: run_selftest started with recorded mode m restores m after it has read
\* the result: when the restore write succeeds the recorded mode after the call
\* is m, and when the restore fails the call still returns OK with the verdict
\* it read.
C24_SelftestRestoresMode ==
    \A t \in Tasks :
       (Returned(t) /\ SelftestInitialized(t) /\ ResultBytes(t) # {})
          => /\ (entry[t].mode = DA7281_MODE_INACTIVE \/ Restored(t))
                   => dev[call[t].device].mode = entry[t].mode
             /\ (entry[t].mode # DA7281_MODE_INACTIVE /\ ~Restored(t))
                   => /\ result[t].err = DA7281_OK
                      /\ \E byte \in ResultBytes(t) : result[t].value = PassFlag(byte)

\* a self-test started in ETWM mode has passed and ETWM is recorded again
C24_Witness ==
    \E t \in Tasks :
       /\ Returned(t)
       /\ SelftestInitialized(t)
       /\ entry[t].mode = 4
       /\ ResultBytes(t) = {DA7281_SELFTEST_RESULT_PASS}
       /\ Restored(t)
       /\ result[t].err = DA7281_OK /\ result[t].value = 1
       /\ dev[call[t].device].mode = 4

\* C29: set_override_amplitude on an initialized handle returns OK for every
\* amplitude in every recorded mode when no access fails; the only register it
\* writes is the override-value register, with the given byte; the initialized
\* flag and the recorded mode are unchanged.
C29_OverrideWritesAmplitude ==
    \A t \in Tasks :
       (call[t].fn = "set_override_amplitude" /\ entry[t].initialized)
          => /\ dev[call[t].device] = entry[t]
             /\ \A i \in WritesIssued(t) :
                   /\ buslog[t][i].reg_addr = "OVERRIDE_AMP"
                   /\ buslog[t][i].value = call[t].amplitude
             /\ (Returned(t) /\ FaultFree(t))
                   => /\ result[t].err = DA7281_OK
                      /\ WritesIssued(t) # {}

\* the GPIO and delay calls of t's n-th call, in order
EffectsOf(t, n) ==
    LET made == SelectSeq(effects[t], LAMBDA e : e.n = n) IN
    [i \in 1 .. Len(made) |-> made[i].op]

\* C25: power_off, in whatever lifecycle state it is called, drives the enable
\* line low, returns OK and leaves the handle neither powered nor initialized; a
\* mode-dependent operation called next is refused as not initialized.
C25_PowerOffInvalidates ==
    \A t \in Tasks :
       /\ (Returned(t) /\ call[t].fn = "power_off")
             => /\ result[t].err = DA7281_OK
                /\ EffectsOf(t, ncalls[t]) = << "pin_clear" >>
                /\ ~enable_line[call[t].device]
                /\ ~dev[call[t].device].powered_on
                /\ ~dev[call[t].device].initialized
       /\ (call[t].fn \in ModeDependentFns /\ EffectsOf(t, ncalls[t] - 1) = << "pin_clear" >>)
             => /\ buslog[t] = << >>
                /\ Returned(t) => result[t].err = DA7281_ERROR_NOT_INITIALIZED

\* power_off was called on an initialized handle, with no deinit before
C25_Witness ==
    \E t \in Tasks :
       /\ Returned(t)
       /\ call[t].fn = "power_off"
       /\ ncalls[t] = 1
       /\ entry[t].powered_on /\ entry[t].initialized
       /\ result[t].err = DA7281_OK
       /\ ~enable_line[call[t].device]
       /\ ~dev[call[t].device].powered_on
       /\ ~dev[call[t].device].initialized

\* C26: power_on on a handle that is already powered returns OK without driving
\* the enable line and without a delay, and leaves the handle as it was; the
\* enable line is never driven high twice without being driven low in between,
\* so two power_on calls in a row make the GPIO and delay calls once.
C26_PowerOnIdempotent ==
    \A t \in Tasks :
       /\ (call[t].fn = "power_on" /\ entry[t].powered_on)
             => /\ EffectsOf(t, ncalls[t]) = << >>
                /\ dev[call[t].device] = entry[t]
                /\ Returned(t) => result[t].err = DA7281_OK
       /\ (Returned(t) /\ call[t].fn = "power_on") => dev[call[t].device].powered_on
       /\ \A i, j \in 1 .. Len(effects[t]) :
             (i < j /\ effects[t][i].op = "pin_set" /\ effects[t][j].op = "pin_set")
                => \E k \in i + 1 .. j - 1 : effects[t][k].op = "pin_clear"

\* the second of two power_on calls has returned; the pin was set and the delay
\* made by the first only
C26_Witness ==
    \E t \in Tasks :
       /\ Returned(t)
       /\ call[t].fn = "power_on"
       /\ ncalls[t] = 2
       /\ entry[t].powered_on
       /\ result[t].err = DA7281_OK
       /\ EffectsOf(t, 1) = << "cfg_output", "pin_set", "delay" >>
       /\ EffectsOf(t, 2) = << >>
       /\ dev[call[t].device].powered_on

\* in this step the register access on top of t's stack returns
AccessReturns(t) ==
    /\ stack[t] # << >>
    /\ Top(t).fn \in {"write_register", "read_register"}
    /\ Len(stack'[t]) = Len(stack[t]) - 1

\* the access on top of t's stack has waited for the lock without getting it
LockNotObtained(t) == Top(t).pc = "take"

\* the transport has reported a failed transaction to the access on top of t's
\* stack, which took the lock before it
TransactionFailed(t) == Top(t).pc = "give" /\ Top(t).ret = "NRF_ERROR"

\* C27: write_register and read_register return the lock error exactly when the
\* lock was not obtained within the bounded wait, and a bus-fault error exactly
\* when the transport reported a failed transaction under the lock; neither code
\* is returned for another cause, such as a failed lock creation or a failed
\* transport initialisation.
C27_LockAndBusErrorsDistinct ==
    [][\A t \in Tasks :
          AccessReturns(t)
             => /\ result'[t].err = DA7281_ERROR_MUTEX_FAILED <=> LockNotObtained(t)
                /\ result'[t].err \in {DA7281_ERROR_I2C_WRITE, DA7281_ERROR_I2C_READ}
                      <=> TransactionFailed(t)]_vars

\* t's call is a register access that has returned, on a bus whose pins are still
\* not configured
ReturnedUnconfigured(t) ==
    /\ Returned(t)
    /\ call[t].fn \in {"write_register", "read_register", "modify_register"}
    /\ dev[call[t].device].twi_instance \in Buses
    /\ ~s_twi_pins[dev[call[t].device].twi_instance].configured

\* the access made no transfer, the transport of its bus is not marked
\* initialized and t holds no bus lock
NothingStarted(t) ==
    /\ buslog[t] = << >>
    /\ ~s_twi_initialized[dev[call[t].device].twi_instance]
    /\ ~twi_drv[dev[call[t].device].twi_instance]
    /\ \A m \in 1 .. Len(mutexes) : mutexes[m].holder # t

\* C28 as stated: a register access on a bus whose pins have not been configured
\* returns the invalid-parameter error, makes no transfer, does not mark the
\* transport initialized and holds no lock afterwards.
C28_UnconfiguredBusRejected ==
    \A t \in Tasks :
       ReturnedUnconfigured(t)
          => /\ result[t].err = DA7281_ERROR_INVALID_PARAM
             /\ NothingStarted(t)

\* C28, amended: the access returns the invalid-parameter error, or the lock
\* error when the lock of the bus could not be created, which is tried first; in
\* both cases it makes no transfer, does not mark the transport initialized,
\* has not waited for a lock and holds none afterwards.
C28_UnconfiguredBusRejectedOrNoLock ==
    \A t \in Tasks :
       ReturnedUnconfigured(t)
          => /\ result[t].err \in {DA7281_ERROR_INVALID_PARAM, DA7281_ERROR_MUTEX_FAILED}
             /\ result[t].lock = NULL
             /\ NothingStarted(t)

\* a write on bus 0, whose pins are not configured, was refused after its lock
\* had been created
C28_Witness ==
    \E t \in Tasks :
       /\ ReturnedUnconfigured(t)
       /\ call[t].fn = "write_register"
       /\ s_i2c_mutex[dev[call[t].device].twi_instance] # NULL
       /\ result[t].err = DA7281_ERROR_INVALID_PARAM
       /\ NothingStarted(t)

\* C30: under fair scheduling every call of write_register, read_register or
\* modify_register by a task that keeps being scheduled returns in the end, also
\* when the other task holds the lock of the same bus forever.
C30_AccessReturns ==
    (stack["t1"] # << >>) ~> (stack["t1"] = << >>)


\* t's call fn on device d has returned DA7281_OK
ReturnedOk(t, fn, d) ==
    /\ Returned(t)
    /\ call[t].fn = fn
    /\ call[t].device = d
    /\ result[t].err = DA7281_OK

\* the mode bits of the chip's control register
ChipMode(d) ==
    BitAnd(chip[d]["TOP_CFG1"], DA7281_TOP_CFG1_OP_MODE_MASK)
       \div 2 ^ DA7281_TOP_CFG1_OP_MODE_SHIFT

\* C31: once a set_operation_mode call by one task and a set_amplifier_enable call
\* by another task on the same device have both returned OK, the control register
\* holds the mode bits of the one and the enable bit of the other (no lost update).
C31_NoLostUpdate ==
    \A t \in Tasks, u \in Tasks, d \in Devices :
       (/\ t # u
        /\ ReturnedOk(t, "set_operation_mode", d)
        /\ ReturnedOk(u, "set_amplifier_enable", d))
       => /\ ChipMode(d) = call[t].mode
          /\ BitAnd(chip[d]["TOP_CFG1"], DA7281_TOP_CFG1_AMP_EN)
                = (IF call[u].enable THEN DA7281_TOP_CFG1_AMP_EN ELSE 0)


\* C32: the TWI driver of a bus is initialized once: no access reaches
\* nrf_drv_twi_init for a bus whose driver another access has initialized already,
\* so no first access fails with the error of a second initialization.
C32_TransportInitializedOnce ==
    \A t \in Tasks : Access(t, "drv_init") => ~twi_drv[Instance(t)]


\* t's read_register has sent the register address and not yet asked for the byte
BetweenAddressAndData(t) == Access(t, "rx")

\* u's step is a transfer on the bus
Transfers(u) == Len(buslog'[u]) > Len(buslog[u])

\* the transfers of t's call whose register address was not acknowledged
FailedAddresses(t) ==
    {i \in 1 .. Len(buslog[t]) : buslog[t][i].op = "addr" /\ ~buslog[t][i].ok}

\* C33: between the address write and the data read of a read_register no other
\* task makes a transfer on the same bus; a read_register whose address write
\* failed makes no data read and returns the read bus-fault error.
C33_ReadIsOneTransaction ==
    /\ [][\A t \in Tasks, u \in Tasks :
             (t # u /\ BetweenAddressAndData(t) /\ Transfers(u))
                => dev[Top(t).device].twi_instance # dev[Top(u).device].twi_instance]_vars
    /\ [](\A t \in Tasks :
             (Returned(t) /\ call[t].fn = "read_register" /\ FailedAddresses(t) # {})
                => /\ result[t].err = DA7281_ERROR_I2C_READ
                   /\ \A i \in 1 .. Len(buslog[t]) : buslog[t][i].op # "rx")

\* the second half of C33 alone
C33_FailedAddressStops ==
    \A t \in Tasks :
       (Returned(t) /\ call[t].fn = "read_register" /\ FailedAddresses(t) # {})
          => /\ result[t].err = DA7281_ERROR_I2C_READ
             /\ \A i \in 1 .. Len(buslog[t]) : buslog[t][i].op # "rx"


\* the transfers of t's call that came after its successful write of reg
AfterWriteOf(t, reg) ==
    {i \in 1 .. Len(buslog[t]) :
        \E w \in WritesIssued(t) :
           w < i /\ buslog[t][w].reg_addr = reg /\ buslog[t][w].ok}

\* the verification read of reg failed, or gave other bits under mask than bits
VerificationBad(t, reg, mask, bits) ==
    \E i \in AfterWriteOf(t, reg) :
       \/ ~buslog[t][i].ok
       \/ buslog[t][i].op = "rx" /\ BitAnd(buslog[t][i].value, mask) # bits

\* C34: a verification read that fails or gives other bits than were written does
\* not fail the call: after a successful masked mode write set_operation_mode
\* returns OK and records the requested mode, and init goes from the actuator-type
\* verification to the mode-set step whatever the verification read gave.
C34_VerificationAdvisory ==
    /\ [](\A t \in Tasks :
             (/\ Returned(t)
              /\ call[t].fn = "set_operation_mode"
              /\ VerificationBad(t, "TOP_CFG1", DA7281_TOP_CFG1_OP_MODE_MASK,
                                 call[t].mode * 2 ^ DA7281_TOP_CFG1_OP_MODE_SHIFT))
                => /\ result[t].err = DA7281_OK
                   /\ dev[call[t].device].mode = call[t].mode)
    /\ [][\A t \in Tasks :
             (Running(t, "init", "after_verify") /\ stack'[t] # stack[t])
                => /\ Running(t, "set_operation_mode", "entry")'
                   /\ Len(stack'[t]) = Len(stack[t]) + 1]_vars

\* set_operation_mode(DRO) returned OK although the verification read gave the
\* mode bits of Inactive
C34_Witness ==
    \E t \in Tasks :
       /\ Returned(t)
       /\ call[t].fn = "set_operation_mode" /\ call[t].mode = 1
       /\ FailedTransfers(t) = {}
       /\ VerificationBad(t, "TOP_CFG1", DA7281_TOP_CFG1_OP_MODE_MASK, 1)
       /\ result[t].err = DA7281_OK
       /\ dev[call[t].device].mode = 1


\* the transfers of t's call that address reg
TransfersOn(t, reg) == {i \in 1 .. Len(buslog[t]) : buslog[t][i].reg_addr = reg}

\* the writes of all-ones to the fault/event register in t's call
FaultClears(t) ==
    {i \in WritesIssued(t) : buslog[t][i].reg_addr = "IRQ_EVENT1" /\ buslog[t][i].value = 255}

\* C35: an init run that has come to the actuator-type masked write has written
\* 0xFF to the fault/event register before it, after the identity read; and the
\* first transfer on the actuator-type register follows that write whether or not
\* the write succeeded.
C35_InitClearsFaults ==
    \A t \in Tasks :
       (InitCall(t) /\ TransfersOn(t, "TOP_CFG2") # {})
          => \E c \in FaultClears(t) :
                /\ \E r \in TransfersOn(t, "CHIP_ID") : r < c
                /\ \A m \in TransfersOn(t, "TOP_CFG2") : c < m


\* the bits of the control register that t's top-level call is to change
Cfg1Mask(t) ==
    IF call[t].fn = "set_operation_mode" THEN DA7281_TOP_CFG1_OP_MODE_MASK
    ELSE DA7281_TOP_CFG1_AMP_EN

\* t's step is a write to the control register that the chip takes
WritesCfg1(t) ==
    /\ Access(t, "tx")
    /\ Top(t).reg_addr = "TOP_CFG1"
    /\ chip' # chip

\* C36: a write to the control register by set_operation_mode leaves every bit but
\* the three mode bits as it was, and one by set_amplifier_enable every bit but the
\* enable bit; after an OK return the mode bits are the requested mode and the
\* enable bit is the requested state, so in either order of two such calls what
\* the first set is still there after the second.
C36_ModeAndEnableIndependent ==
    /\ [][\A t \in Tasks :
             (call[t].fn \in {"set_operation_mode", "set_amplifier_enable"} /\ WritesCfg1(t))
                => BitAnd(chip'[Top(t).device]["TOP_CFG1"], BitNot(Cfg1Mask(t)))
                      = BitAnd(chip[Top(t).device]["TOP_CFG1"], BitNot(Cfg1Mask(t)))]_vars
    /\ [](\A t \in Tasks, d \in Devices :
             /\ ReturnedOk(t, "set_operation_mode", d) => ChipMode(d) = call[t].mode
             /\ ReturnedOk(t, "set_amplifier_enable", d)
                   => BitAnd(chip[d]["TOP_CFG1"], DA7281_TOP_CFG1_AMP_EN)
                         = (IF call[t].enable THEN DA7281_TOP_CFG1_AMP_EN ELSE 0))

\* the mode was set to DRO on a chip whose amplifier an earlier call had enabled:
\* the control register holds both
C36_Witness ==
    \E t \in Tasks :
       /\ ReturnedOk(t, "set_operation_mode", "devA")
       /\ call[t].mode = 1
       /\ ncalls[t] = 2
       /\ chip["devA"]["TOP_CFG1"] = DA7281_TOP_CFG1_AMP_EN + 1


\* roundf(period_seconds / DA7281_LRA_PER_TIME_SCALE), before the cast to uint16_t
PeriodCode(config) == RoundDiv(LraPerLsbPerSecond, config.resonant_freq_hz)

\* the first n transfers of t's call are done and succeeded
WrittenOk(t, n) ==
    /\ Len(buslog[t]) >= n
    /\ \A i \in 1 .. n : buslog[t][i].ok

\* C37: for an accepted actuator specification the period code lies in 1..65535,
\* and the two period bytes written, high byte first, are that code.
C37_PeriodCodeFits ==
    \A t \in Tasks :
       (ConfiguringInitialized(t) /\ ~OutOfBounds(call[t].config) /\ WrittenOk(t, 2))
          => /\ PeriodCode(call[t].config) \in 1 .. 65535
             /\ buslog[t][1].value * 256 + buslog[t][2].value = PeriodCode(call[t].config)

\* the float quotients of the voltage limits, truncated, before the cast to uint8_t
NominalCode(config) == (config.nom_max_v_rms * 100) \div DA7281_ACTUATOR_NOMMAX_SCALE

PeakCode(config) == (config.abs_max_v_peak * 100) \div DA7281_ACTUATOR_ABSMAX_SCALE

\* C38: for an accepted actuator specification the codes of the nominal and of the
\* peak voltage limit lie in 0..255, and the bytes written to the nominal-max and
\* the absolute-max register are those codes.
C38_VoltageCodesFit ==
    \A t \in Tasks :
       (ConfiguringInitialized(t) /\ ~OutOfBounds(call[t].config))
          => /\ WrittenOk(t, 5)
                   => /\ NominalCode(call[t].config) \in 0 .. 255
                      /\ buslog[t][5].value = NominalCode(call[t].config)
             /\ WrittenOk(t, 6)
                   => /\ PeakCode(call[t].config) \in 0 .. 255
                      /\ buslog[t][6].value = PeakCode(call[t].config)


\* t's self-test has switched the device to Inactive: a mode write has succeeded
SwitchedToInactive(t) == \E i \in Cfg1Writes(t) : buslog[t][i].ok

\* the restore of the saved mode was attempted and its mode write did not succeed
RestoreFailed(t) == ResultBytes(t) # {} /\ ~Restored(t)

\* C39: a run_selftest that has switched the device to Inactive has, on every
\* return, the recorded mode and the chip's mode bits back at the mode recorded
\* before the call, unless the restoring write failed.
C39_SelftestAlwaysRestores ==
    \A t \in Tasks :
       (Returned(t) /\ SelftestInitialized(t) /\ SwitchedToInactive(t))
          => \/ RestoreFailed(t)
             \/ /\ dev[call[t].device].mode = entry[t].mode
                /\ ChipMode(call[t].device) = entry[t].mode


\* C40: once set_operation_mode calls of two tasks on the same handle, with
\* different modes, have both returned OK, the mode recorded in the handle is the
\* mode the chip's control register holds.
C40_RecordedModeIsChipMode ==
    \A t \in Tasks, u \in Tasks, d \in Devices :
       (/\ t # u
        /\ ReturnedOk(t, "set_operation_mode", d)
        /\ ReturnedOk(u, "set_operation_mode", d)
        /\ call[t].mode # call[u].mode)
       => dev[d].mode = ChipMode(d)

====
